---------------------------- MODULE Spec2Model ----------------------------
(***************************************************************************)
(* GoScanRentalTide: the scan acquisition protocol (sendScannerCommand,    *)
(* readWithTimeout), the HTTP scan handler (scannerHandler) and the        *)
(* license parsers of src/main.go.                                         *)
(*                                                                         *)
(* Go strings and byte slices are sequences of byte values (0..255); the   *)
(* text a sequence stands for is given in a comment next to it.  Time is   *)
(* a discrete clock; TicksPerSecond is its resolution.                     *)
(***************************************************************************)
EXTENDS Integers, Sequences, FiniteSets, TLC

(***************************************************************************)
(* Bounds of the model (not program constants).                            *)
(***************************************************************************)
\* clock resolution: ticks per second of wall-clock time
TicksPerSecond == 1
\* fragments a device that never goes idle puts on the line within one tick
RatePerTick == 1
\* fragments the scanner splits one answer into, at most
MaxFragments == 3
\* reads of one request that return 0 bytes and no error
MaxZeroReads == 1

(***************************************************************************)
(* Protocol bytes.                                                         *)
(***************************************************************************)
SOH == 1
EOT == 4
NAK == 21

(***************************************************************************)
(* package strings, on byte sequences.                                     *)
(***************************************************************************)
Min(a, b) == IF a <= b THEN a ELSE b

\* s[a:b] of Go (0-based, b exclusive)
Slice(s, a, b) == SubSeq(s, a + 1, b)
\* s[a:] of Go
SliceFrom(s, a) == SubSeq(s, a + 1, Len(s))

\* the ASCII white space of strings.TrimSpace: \t \n \v \f \r and space
asciiSpace == {9, 10, 11, 12, 13, 32}
\* utf8.RuneSelf: bytes below it are runes of their own
RuneSelf == 128
\* the length of the UTF-8 encoding b1 b2 b3 begins with, when that is one
\* of the other runes unicode.IsSpace holds of (U+0085, U+00A0, U+1680,
\* U+2000..U+200A, U+2028, U+2029, U+202F, U+205F, U+3000), else 0
WideSpaceLen(b1, b2, b3) ==
    IF b1 = 194 /\ b2 \in {133, 160} THEN 2
    ELSE IF \/ b1 = 225 /\ b2 = 154 /\ b3 = 128
            \/ b1 = 226 /\ b2 = 128 /\ b3 \in (128..138) \cup {168, 169, 175}
            \/ b1 = 226 /\ b2 = 129 /\ b3 = 159
            \/ b1 = 227 /\ b2 = 128 /\ b3 = 128
         THEN 3
         ELSE 0
\* s[i - 1] of Go where there is such a byte, else -1
ByteAt(s, i) == IF i \in 1..Len(s) THEN s[i] ELSE -1
\* byte i of s is a white space rune or part of the encoding of one. (The
\* encodings cannot overlap: none begins with a continuation byte.)
IsSpaceAt(s, i) ==
    \/ s[i] \in asciiSpace
    \/ /\ s[i] >= RuneSelf
       /\ \E a \in (i - 2)..i :
            a + WideSpaceLen(ByteAt(s, a), ByteAt(s, a + 1), ByteAt(s, a + 2)) > i
IsDigit(b) == b \in 48..57
IsUpper(b) == b \in 65..90
IsLower(b) == b \in 97..122
\* \w of package regexp: [0-9A-Za-z_]
IsWord(b) == IsDigit(b) \/ IsUpper(b) \/ IsLower(b) \/ b = 95

HasPrefix(s, p) == Len(s) >= Len(p) /\ SubSeq(s, 1, Len(p)) = p

TrimPrefix(s, p) == IF HasPrefix(s, p) THEN SliceFrom(s, Len(p)) ELSE s

\* strings.Index, 0-based; -1 when p does not occur in s
Index(s, p) ==
    LET hits == {i \in 0..(Len(s) - Len(p)) : Slice(s, i, i + Len(p)) = p}
    IN IF hits = {} THEN -1 ELSE CHOOSE i \in hits : \A j \in hits : i <= j

Contains(s, p) == Index(s, p) >= 0

\* s from the first to the last of the positions in keep
TrimTo(s, keep) ==
    IF keep = {} THEN <<>>
    ELSE SubSeq(s, CHOOSE i \in keep : \A j \in keep : i <= j,
                   CHOOSE i \in keep : \A j \in keep : i >= j)

\* strings.TrimSpace: the white space runes at the front and at the back
\* are cut, ASCII or not; what is left runs from the first to the last byte
\* that is not part of a white space rune
TrimSpace(s) == TrimTo(s, {i \in 1..Len(s) : ~IsSpaceAt(s, i)})

\* utf8.RuneError, the rune an invalid byte is decoded to
RuneError == 65533
\* b is a continuation byte of UTF-8
IsCont(b) == 128 <= b /\ b <= 191

\* utf8.DecodeRuneInString for a string that begins with the bytes b1..b4
\* (-1 where the string has ended): the rune r and its width w. Encodings
\* that are too long, of a surrogate or above U+10FFFF are invalid
DecodeBytes(b1, b2, b3, b4) ==
    IF b1 < RuneSelf THEN [r |-> b1, w |-> 1]
    ELSE IF 194 <= b1 /\ b1 <= 223 /\ IsCont(b2)
    THEN [r |-> (b1 - 192) * 64 + (b2 - 128), w |-> 2]
    ELSE IF /\ 224 <= b1 /\ b1 <= 239 /\ IsCont(b2) /\ IsCont(b3)
            /\ (b1 = 224 => b2 >= 160) /\ (b1 = 237 => b2 <= 159)
    THEN [r |-> (b1 - 224) * 4096 + (b2 - 128) * 64 + (b3 - 128), w |-> 3]
    ELSE IF /\ 240 <= b1 /\ b1 <= 244 /\ IsCont(b2) /\ IsCont(b3) /\ IsCont(b4)
            /\ (b1 = 240 => b2 >= 144) /\ (b1 = 244 => b2 <= 143)
    THEN [r |-> (b1 - 240) * 262144 + (b2 - 128) * 4096 + (b3 - 128) * 64 + (b4 - 128),
          w |-> 4]
    ELSE [r |-> RuneError, w |-> 1]

\* the runes of s from byte i on (i from 1), as strings.Map decodes them
RECURSIVE Runes(_, _)
RunesAfter(s, i, d) == <<d.r>> \o Runes(s, i + d.w)
Runes(s, i) ==
    IF i > Len(s) THEN <<>>
    ELSE RunesAfter(s, i, DecodeBytes(ByteAt(s, i), ByteAt(s, i + 1),
                                      ByteAt(s, i + 2), ByteAt(s, i + 3)))

\* utf8.AppendRune: the UTF-8 encoding of r
EncodeRune(r) ==
    IF r < RuneSelf THEN <<r>>
    ELSE IF r < 2048 THEN <<192 + (r \div 64), 128 + (r % 64)>>
    ELSE IF r >= 55296 /\ r <= 57343 THEN <<239, 191, 189>>
    ELSE IF r < 65536
    THEN <<224 + (r \div 4096), 128 + ((r \div 64) % 64), 128 + (r % 64)>>
    ELSE <<240 + (r \div 262144), 128 + ((r \div 4096) % 64),
           128 + ((r \div 64) % 64), 128 + (r % 64)>>

RECURSIVE EncodeRunes(_)
EncodeRunes(rs) ==
    IF rs = <<>> THEN <<>> ELSE EncodeRune(Head(rs)) \o EncodeRunes(Tail(rs))

\* unicode.CaseRanges (Unicode 15.0) above ASCII, upper case: <<lo, hi,
\* stride, delta>> says that the runes lo, lo + stride, ..., hi have the
\* upper case rune + delta
UpperRanges ==
    { <<181, 181, 1, 743>>, <<224, 246, 1, -32>>, <<248, 254, 1, -32>>,
      <<255, 255, 1, 121>>, <<257, 303, 2, -1>>, <<305, 305, 1, -232>>,
      <<307, 311, 2, -1>>, <<314, 328, 2, -1>>, <<331, 375, 2, -1>>,
      <<378, 382, 2, -1>>, <<383, 383, 1, -300>>, <<384, 384, 1, 195>>,
      <<387, 389, 2, -1>>, <<392, 392, 1, -1>>, <<396, 396, 1, -1>>,
      <<402, 402, 1, -1>>, <<405, 405, 1, 97>>, <<409, 409, 1, -1>>,
      <<410, 410, 1, 163>>, <<414, 414, 1, 130>>, <<417, 421, 2, -1>>,
      <<424, 424, 1, -1>>, <<429, 429, 1, -1>>, <<432, 432, 1, -1>>,
      <<436, 438, 2, -1>>, <<441, 441, 1, -1>>, <<445, 445, 1, -1>>,
      <<447, 447, 1, 56>>, <<453, 453, 1, -1>>, <<454, 454, 1, -2>>,
      <<456, 456, 1, -1>>, <<457, 457, 1, -2>>, <<459, 459, 1, -1>>,
      <<460, 460, 1, -2>>, <<462, 476, 2, -1>>, <<477, 477, 1, -79>>,
      <<479, 495, 2, -1>>, <<498, 498, 1, -1>>, <<499, 499, 1, -2>>,
      <<501, 501, 1, -1>>, <<505, 543, 2, -1>>, <<547, 563, 2, -1>>,
      <<572, 572, 1, -1>>, <<575, 576, 1, 10815>>, <<578, 578, 1, -1>>,
      <<583, 591, 2, -1>>, <<592, 592, 1, 10783>>, <<593, 593, 1, 10780>>,
      <<594, 594, 1, 10782>>, <<595, 595, 1, -210>>, <<596, 596, 1, -206>>,
      <<598, 599, 1, -205>>, <<601, 601, 1, -202>>, <<603, 603, 1, -203>>,
      <<604, 604, 1, 42319>>, <<608, 608, 1, -205>>, <<609, 609, 1, 42315>>,
      <<611, 611, 1, -207>>, <<613, 613, 1, 42280>>, <<614, 614, 1, 42308>>,
      <<616, 616, 1, -209>>, <<617, 617, 1, -211>>, <<618, 618, 1, 42308>>,
      <<619, 619, 1, 10743>>, <<620, 620, 1, 42305>>, <<623, 623, 1, -211>>,
      <<625, 625, 1, 10749>>, <<626, 626, 1, -213>>, <<629, 629, 1, -214>>,
      <<637, 637, 1, 10727>>, <<640, 640, 1, -218>>, <<642, 642, 1, 42307>>,
      <<643, 643, 1, -218>>, <<647, 647, 1, 42282>>, <<648, 648, 1, -218>>,
      <<649, 649, 1, -69>>, <<650, 651, 1, -217>>, <<652, 652, 1, -71>>,
      <<658, 658, 1, -219>>, <<669, 669, 1, 42261>>, <<670, 670, 1, 42258>>,
      <<837, 837, 1, 84>>, <<881, 883, 2, -1>>, <<887, 887, 1, -1>>,
      <<891, 893, 1, 130>>, <<940, 940, 1, -38>>, <<941, 943, 1, -37>>,
      <<945, 961, 1, -32>>, <<962, 962, 1, -31>>, <<963, 971, 1, -32>>,
      <<972, 972, 1, -64>>, <<973, 974, 1, -63>>, <<976, 976, 1, -62>>,
      <<977, 977, 1, -57>>, <<981, 981, 1, -47>>, <<982, 982, 1, -54>>,
      <<983, 983, 1, -8>>, <<985, 1007, 2, -1>>, <<1008, 1008, 1, -86>>,
      <<1009, 1009, 1, -80>>, <<1010, 1010, 1, 7>>, <<1011, 1011, 1, -116>>,
      <<1013, 1013, 1, -96>>, <<1016, 1016, 1, -1>>, <<1019, 1019, 1, -1>>,
      <<1072, 1103, 1, -32>>, <<1104, 1119, 1, -80>>, <<1121, 1153, 2, -1>>,
      <<1163, 1215, 2, -1>>, <<1218, 1230, 2, -1>>, <<1231, 1231, 1, -15>>,
      <<1233, 1327, 2, -1>>, <<1377, 1414, 1, -48>>, <<4304, 4346, 1, 3008>>,
      <<4349, 4351, 1, 3008>>, <<5112, 5117, 1, -8>>,
      <<7296, 7296, 1, -6254>>, <<7297, 7297, 1, -6253>>,
      <<7298, 7298, 1, -6244>>, <<7299, 7300, 1, -6242>>,
      <<7301, 7301, 1, -6243>>, <<7302, 7302, 1, -6236>>,
      <<7303, 7303, 1, -6181>>, <<7304, 7304, 1, 35266>>,
      <<7545, 7545, 1, 35332>>, <<7549, 7549, 1, 3814>>,
      <<7566, 7566, 1, 35384>>, <<7681, 7829, 2, -1>>, <<7835, 7835, 1, -59>>,
      <<7841, 7935, 2, -1>>, <<7936, 7943, 1, 8>>, <<7952, 7957, 1, 8>>,
      <<7968, 7975, 1, 8>>, <<7984, 7991, 1, 8>>, <<8000, 8005, 1, 8>>,
      <<8017, 8023, 2, 8>>, <<8032, 8039, 1, 8>>, <<8048, 8049, 1, 74>>,
      <<8050, 8053, 1, 86>>, <<8054, 8055, 1, 100>>, <<8056, 8057, 1, 128>>,
      <<8058, 8059, 1, 112>>, <<8060, 8061, 1, 126>>, <<8064, 8071, 1, 8>>,
      <<8080, 8087, 1, 8>>, <<8096, 8103, 1, 8>>, <<8112, 8113, 1, 8>>,
      <<8115, 8115, 1, 9>>, <<8126, 8126, 1, -7205>>, <<8131, 8131, 1, 9>>,
      <<8144, 8145, 1, 8>>, <<8160, 8161, 1, 8>>, <<8165, 8165, 1, 7>>,
      <<8179, 8179, 1, 9>>, <<8526, 8526, 1, -28>>, <<8560, 8575, 1, -16>>,
      <<8580, 8580, 1, -1>>, <<9424, 9449, 1, -26>>, <<11312, 11359, 1, -48>>,
      <<11361, 11361, 1, -1>>, <<11365, 11365, 1, -10795>>,
      <<11366, 11366, 1, -10792>>, <<11368, 11372, 2, -1>>,
      <<11379, 11379, 1, -1>>, <<11382, 11382, 1, -1>>,
      <<11393, 11491, 2, -1>>, <<11500, 11502, 2, -1>>,
      <<11507, 11507, 1, -1>>, <<11520, 11557, 1, -7264>>,
      <<11559, 11559, 1, -7264>>, <<11565, 11565, 1, -7264>>,
      <<42561, 42605, 2, -1>>, <<42625, 42651, 2, -1>>,
      <<42787, 42799, 2, -1>>, <<42803, 42863, 2, -1>>,
      <<42874, 42876, 2, -1>>, <<42879, 42887, 2, -1>>,
      <<42892, 42892, 1, -1>>, <<42897, 42899, 2, -1>>,
      <<42900, 42900, 1, 48>>, <<42903, 42921, 2, -1>>,
      <<42933, 42947, 2, -1>>, <<42952, 42954, 2, -1>>,
      <<42961, 42961, 1, -1>>, <<42967, 42969, 2, -1>>,
      <<42998, 42998, 1, -1>>, <<43859, 43859, 1, -928>>,
      <<43888, 43967, 1, -38864>>, <<65345, 65370, 1, -32>>,
      <<66600, 66639, 1, -40>>, <<66776, 66811, 1, -40>>,
      <<66967, 67003, 2, -39>>, <<66968, 66977, 1, -39>>,
      <<66980, 66993, 1, -39>>, <<66996, 67001, 1, -39>>,
      <<67004, 67004, 1, -39>>, <<68800, 68850, 1, -64>>,
      <<71872, 71903, 1, -32>>, <<93792, 93823, 1, -32>>,
      <<125218, 125251, 1, -34>> }

\* the same for lower case
LowerRanges ==
    { <<192, 214, 1, 32>>, <<216, 222, 1, 32>>, <<256, 302, 2, 1>>,
      <<304, 304, 1, -199>>, <<306, 310, 2, 1>>, <<313, 327, 2, 1>>,
      <<330, 374, 2, 1>>, <<376, 376, 1, -121>>, <<377, 381, 2, 1>>,
      <<385, 385, 1, 210>>, <<386, 388, 2, 1>>, <<390, 390, 1, 206>>,
      <<391, 391, 1, 1>>, <<393, 394, 1, 205>>, <<395, 395, 1, 1>>,
      <<398, 398, 1, 79>>, <<399, 399, 1, 202>>, <<400, 400, 1, 203>>,
      <<401, 401, 1, 1>>, <<403, 403, 1, 205>>, <<404, 404, 1, 207>>,
      <<406, 406, 1, 211>>, <<407, 407, 1, 209>>, <<408, 408, 1, 1>>,
      <<412, 412, 1, 211>>, <<413, 413, 1, 213>>, <<415, 415, 1, 214>>,
      <<416, 420, 2, 1>>, <<422, 422, 1, 218>>, <<423, 423, 1, 1>>,
      <<425, 425, 1, 218>>, <<428, 428, 1, 1>>, <<430, 430, 1, 218>>,
      <<431, 431, 1, 1>>, <<433, 434, 1, 217>>, <<435, 437, 2, 1>>,
      <<439, 439, 1, 219>>, <<440, 440, 1, 1>>, <<444, 444, 1, 1>>,
      <<452, 452, 1, 2>>, <<453, 453, 1, 1>>, <<455, 455, 1, 2>>,
      <<456, 456, 1, 1>>, <<458, 458, 1, 2>>, <<459, 475, 2, 1>>,
      <<478, 494, 2, 1>>, <<497, 497, 1, 2>>, <<498, 500, 2, 1>>,
      <<502, 502, 1, -97>>, <<503, 503, 1, -56>>, <<504, 542, 2, 1>>,
      <<544, 544, 1, -130>>, <<546, 562, 2, 1>>, <<570, 570, 1, 10795>>,
      <<571, 571, 1, 1>>, <<573, 573, 1, -163>>, <<574, 574, 1, 10792>>,
      <<577, 577, 1, 1>>, <<579, 579, 1, -195>>, <<580, 580, 1, 69>>,
      <<581, 581, 1, 71>>, <<582, 590, 2, 1>>, <<880, 882, 2, 1>>,
      <<886, 886, 1, 1>>, <<895, 895, 1, 116>>, <<902, 902, 1, 38>>,
      <<904, 906, 1, 37>>, <<908, 908, 1, 64>>, <<910, 911, 1, 63>>,
      <<913, 929, 1, 32>>, <<931, 939, 1, 32>>, <<975, 975, 1, 8>>,
      <<984, 1006, 2, 1>>, <<1012, 1012, 1, -60>>, <<1015, 1015, 1, 1>>,
      <<1017, 1017, 1, -7>>, <<1018, 1018, 1, 1>>, <<1021, 1023, 1, -130>>,
      <<1024, 1039, 1, 80>>, <<1040, 1071, 1, 32>>, <<1120, 1152, 2, 1>>,
      <<1162, 1214, 2, 1>>, <<1216, 1216, 1, 15>>, <<1217, 1229, 2, 1>>,
      <<1232, 1326, 2, 1>>, <<1329, 1366, 1, 48>>, <<4256, 4293, 1, 7264>>,
      <<4295, 4295, 1, 7264>>, <<4301, 4301, 1, 7264>>,
      <<5024, 5103, 1, 38864>>, <<5104, 5109, 1, 8>>,
      <<7312, 7354, 1, -3008>>, <<7357, 7359, 1, -3008>>,
      <<7680, 7828, 2, 1>>, <<7838, 7838, 1, -7615>>, <<7840, 7934, 2, 1>>,
      <<7944, 7951, 1, -8>>, <<7960, 7965, 1, -8>>, <<7976, 7983, 1, -8>>,
      <<7992, 7999, 1, -8>>, <<8008, 8013, 1, -8>>, <<8025, 8031, 2, -8>>,
      <<8040, 8047, 1, -8>>, <<8072, 8079, 1, -8>>, <<8088, 8095, 1, -8>>,
      <<8104, 8111, 1, -8>>, <<8120, 8121, 1, -8>>, <<8122, 8123, 1, -74>>,
      <<8124, 8124, 1, -9>>, <<8136, 8139, 1, -86>>, <<8140, 8140, 1, -9>>,
      <<8152, 8153, 1, -8>>, <<8154, 8155, 1, -100>>, <<8168, 8169, 1, -8>>,
      <<8170, 8171, 1, -112>>, <<8172, 8172, 1, -7>>, <<8184, 8185, 1, -128>>,
      <<8186, 8187, 1, -126>>, <<8188, 8188, 1, -9>>,
      <<8486, 8486, 1, -7517>>, <<8490, 8490, 1, -8383>>,
      <<8491, 8491, 1, -8262>>, <<8498, 8498, 1, 28>>, <<8544, 8559, 1, 16>>,
      <<8579, 8579, 1, 1>>, <<9398, 9423, 1, 26>>, <<11264, 11311, 1, 48>>,
      <<11360, 11360, 1, 1>>, <<11362, 11362, 1, -10743>>,
      <<11363, 11363, 1, -3814>>, <<11364, 11364, 1, -10727>>,
      <<11367, 11371, 2, 1>>, <<11373, 11373, 1, -10780>>,
      <<11374, 11374, 1, -10749>>, <<11375, 11375, 1, -10783>>,
      <<11376, 11376, 1, -10782>>, <<11378, 11378, 1, 1>>,
      <<11381, 11381, 1, 1>>, <<11390, 11391, 1, -10815>>,
      <<11392, 11490, 2, 1>>, <<11499, 11501, 2, 1>>, <<11506, 11506, 1, 1>>,
      <<42560, 42604, 2, 1>>, <<42624, 42650, 2, 1>>, <<42786, 42798, 2, 1>>,
      <<42802, 42862, 2, 1>>, <<42873, 42875, 2, 1>>,
      <<42877, 42877, 1, -35332>>, <<42878, 42886, 2, 1>>,
      <<42891, 42891, 1, 1>>, <<42893, 42893, 1, -42280>>,
      <<42896, 42898, 2, 1>>, <<42902, 42920, 2, 1>>,
      <<42922, 42922, 1, -42308>>, <<42923, 42923, 1, -42319>>,
      <<42924, 42924, 1, -42315>>, <<42925, 42925, 1, -42305>>,
      <<42926, 42926, 1, -42308>>, <<42928, 42928, 1, -42258>>,
      <<42929, 42929, 1, -42282>>, <<42930, 42930, 1, -42261>>,
      <<42931, 42931, 1, 928>>, <<42932, 42946, 2, 1>>,
      <<42948, 42948, 1, -48>>, <<42949, 42949, 1, -42307>>,
      <<42950, 42950, 1, -35384>>, <<42951, 42953, 2, 1>>,
      <<42960, 42960, 1, 1>>, <<42966, 42968, 2, 1>>, <<42997, 42997, 1, 1>>,
      <<65313, 65338, 1, 32>>, <<66560, 66599, 1, 40>>,
      <<66736, 66771, 1, 40>>, <<66928, 66964, 2, 39>>,
      <<66929, 66938, 1, 39>>, <<66941, 66954, 1, 39>>,
      <<66957, 66962, 1, 39>>, <<66965, 66965, 1, 39>>,
      <<68736, 68786, 1, 64>>, <<71840, 71871, 1, 32>>,
      <<93760, 93791, 1, 32>>, <<125184, 125217, 1, 34>> }

\* r moved by the delta of the ranges it is in, if any
Shifted(r, hits) == IF hits = {} THEN r ELSE r + (CHOOSE e \in hits : TRUE)[4]

\* unicode.ToUpper
ToUpperRune(r) ==
    IF r < RuneSelf THEN (IF IsLower(r) THEN r - 32 ELSE r)
    ELSE Shifted(r, {e \in UpperRanges :
                         e[1] <= r /\ r <= e[2] /\ (r - e[1]) % e[3] = 0})

\* unicode.ToLower
ToLowerRune(r) ==
    IF r < RuneSelf THEN (IF IsUpper(r) THEN r + 32 ELSE r)
    ELSE Shifted(r, {e \in LowerRanges :
                         e[1] <= r /\ r <= e[2] /\ (r - e[1]) % e[3] = 0})

MapToUpper(rs) == [k \in 1..Len(rs) |-> ToUpperRune(rs[k])]
MapToLower(rs) == [k \in 1..Len(rs) |-> ToLowerRune(rs[k])]

\* strings.ToUpper, strings.ToLower: every rune is mapped and encoded again;
\* a byte that is no valid UTF-8 becomes U+FFFD
ToUpper(s) == EncodeRunes(MapToUpper(Runes(s, 1)))
ToLower(s) == EncodeRunes(MapToLower(Runes(s, 1)))

\* strings.Split(s, sep) for a non-empty separator: always at least one part
RECURSIVE Split(_, _)
Split(s, sep) ==
    LET i == Index(s, sep)
    IN IF i < 0 THEN <<s>>
       ELSE <<Slice(s, 0, i)>> \o Split(SliceFrom(s, i + Len(sep)), sep)

\* mutant of SplitN2: the string is not split
SplitN2Whole(s, sep) == <<s>>

\* strings.SplitN(s, sep, 2)
SplitN2(s, sep) ==
    LET i == Index(s, sep)
    IN IF i < 0 THEN <<s>> ELSE <<Slice(s, 0, i), SliceFrom(s, i + Len(sep))>>

\* strings.ReplaceAll(s, old, new) for a non-empty old
RECURSIVE ReplaceAll(_, _, _)
ReplaceAll(s, old, new) ==
    LET i == Index(s, old)
    IN IF i < 0 THEN s
       ELSE Slice(s, 0, i) \o new \o ReplaceAll(SliceFrom(s, i + Len(old)), old, new)

\* hex.EncodeToString: two lower-case hex digits per byte
HexDigit(n) == IF n < 10 THEN 48 + n ELSE 87 + n
RECURSIVE EncodeToString(_)
EncodeToString(s) ==
    IF s = <<>> THEN <<>>
    ELSE <<HexDigit(Head(s) \div 16), HexDigit(Head(s) % 16)>> \o EncodeToString(Tail(s))

\* mutant of Atoi: only the last digit counts
AtoiUnits(s) == IF s = <<>> THEN 0 ELSE s[Len(s)] - 48

\* strconv.Atoi of a string of decimal digits (the error is dropped by the caller)
RECURSIVE Atoi(_)
Atoi(s) ==
    IF s = <<>> THEN 0
    ELSE Atoi(SubSeq(s, 1, Len(s) - 1)) * 10 + (s[Len(s)] - 48)

(***************************************************************************)
(* LicenseData and the parsers.                                            *)
(***************************************************************************)
\* the zero value of struct LicenseData
LicenseData ==
    [FirstName |-> <<>>, MiddleName |-> <<>>, LastName |-> <<>>,
     Address |-> <<>>, City |-> <<>>, State |-> <<>>, Postal |-> <<>>,
     LicenseNumber |-> <<>>, IssueDate |-> <<>>, ExpiryDate |-> <<>>,
     Height |-> <<>>, Sex |-> <<>>, LicenseClass |-> <<>>, Dob |-> <<>>,
     RawData |-> <<>>]

\* \s of package regexp: [\t\n\f\r ]
IsReSpace(b) == b \in {9, 10, 12, 13, 32}

\* least element of a non-empty set of integers
Least(S) == CHOOSE i \in S : \A j \in S : i <= j

\* length of the run of digits of s that starts at 0-based position i
RECURSIVE DigitRun(_, _)
DigitRun(s, i) ==
    IF i < Len(s) /\ IsDigit(s[i + 1]) THEN 1 + DigitRun(s, i + 1) ELSE 0

\* length of the run of \w characters of s that starts at 0-based position i
RECURSIVE WordRun(_, _)
WordRun(s, i) ==
    IF i < Len(s) /\ IsWord(s[i + 1]) THEN 1 + WordRun(s, i + 1) ELSE 0

\* regexp `[A-Z]\d[A-Z]\s?\d[A-Z]\d`, FindString: the leftmost match, "" if none
PostalTail(s, i) == i + 3 <= Len(s) /\ IsDigit(s[i + 1]) /\ IsUpper(s[i + 2]) /\ IsDigit(s[i + 3])
PostalLen(s, i) ==
    IF ~(i + 3 <= Len(s) /\ IsUpper(s[i + 1]) /\ IsDigit(s[i + 2]) /\ IsUpper(s[i + 3])) THEN 0
    ELSE IF i + 4 <= Len(s) /\ IsReSpace(s[i + 4]) /\ PostalTail(s, i + 4) THEN 7
    ELSE IF PostalTail(s, i + 3) THEN 6
    ELSE 0
postalRegex(s) ==
    LET hits == {i \in 0..(Len(s) - 1) : PostalLen(s, i) > 0}
    IN IF hits = {} THEN <<>>
       ELSE Slice(s, Least(hits), Least(hits) + PostalLen(s, Least(hits)))

\* mutant of licenseNumMatch: the run has no upper length, `;(\d{13,})=`
licenseNumMatchUnbounded(s) ==
    LET hits == {i \in 0..(Len(s) - 1) :
                    /\ s[i + 1] = 59
                    /\ DigitRun(s, i + 1) >= 13
                    /\ i + 1 + DigitRun(s, i + 1) < Len(s)
                    /\ s[i + 2 + DigitRun(s, i + 1)] = 61}
    IN IF hits = {} THEN <<>>
       ELSE Slice(s, Least(hits) + 1, Least(hits) + 1 + DigitRun(s, Least(hits) + 1))

\* regexp `;(\d{13,16})=`, FindStringSubmatch: the captured digits of the
\* leftmost match, "" if none
licenseNumMatch(s) ==
    LET hits == {i \in 0..(Len(s) - 1) :
                    /\ s[i + 1] = 59
                    /\ DigitRun(s, i + 1) \in 13..16
                    /\ i + 1 + DigitRun(s, i + 1) < Len(s)
                    /\ s[i + 2 + DigitRun(s, i + 1)] = 61}
    IN IF hits = {} THEN <<>>
       ELSE Slice(s, Least(hits) + 1, Least(hits) + 1 + DigitRun(s, Least(hits) + 1))

\* mutant of dateMatch: any block of digits between two "=", `=(\d+)=`
dateMatchAnyLength(s) ==
    LET hits == {i \in 0..(Len(s) - 1) :
                    /\ s[i + 1] = 61
                    /\ DigitRun(s, i + 1) > 0
                    /\ i + 1 + DigitRun(s, i + 1) < Len(s)
                    /\ s[i + 2 + DigitRun(s, i + 1)] = 61}
    IN IF hits = {} THEN <<>>
       ELSE Slice(s, Least(hits) + 1, Least(hits) + 1 + DigitRun(s, Least(hits) + 1))

\* regexp `=(\d{12})=`, FindStringSubmatch: the captured digits, "" if none
dateMatch(s) ==
    LET hits == {i \in 0..(Len(s) - 1) :
                    /\ s[i + 1] = 61
                    /\ DigitRun(s, i + 1) = 12
                    /\ i + 13 < Len(s)
                    /\ s[i + 14] = 61}
    IN IF hits = {} THEN <<>> ELSE Slice(s, Least(hits) + 1, Least(hits) + 13)

\* regexp `([MF])(\d{3})`, FindStringSubmatch: the 4 matched bytes, "" if none
sexHeight(s) ==
    LET hits == {i \in 0..(Len(s) - 1) : s[i + 1] \in {77, 70} /\ DigitRun(s, i + 1) >= 3}
    IN IF hits = {} THEN <<>> ELSE Slice(s, Least(hits), Least(hits) + 4)

\* mutant of licenseClassMatch: one character is captured, `DCAG(\w)`
licenseClassMatchOneChar(line) ==
    LET hits == {i \in 0..(Len(line) - 4) :
                    Slice(line, i, i + 4) = <<68, 67, 65, 71>> /\ WordRun(line, i + 4) > 0}
    IN IF hits = {} THEN <<>>
       ELSE Slice(line, Least(hits) + 4, Least(hits) + 5)

\* regexp `DCAG(\w+)`, FindStringSubmatch: the captured run, "" if none
licenseClassMatch(line) ==
    LET hits == {i \in 0..(Len(line) - 4) :
                    Slice(line, i, i + 4) = <<68, 67, 65, 71>> /\ WordRun(line, i + 4) > 0}
    IN IF hits = {} THEN <<>>
       ELSE Slice(line, Least(hits) + 4, Least(hits) + 4 + WordRun(line, Least(hits) + 4))

\* parseBCLicenseData(raw); yy is time.Now().Year() % 100
parseBCLicenseData(raw, yy) ==
    LET clean == ReplaceAll(ReplaceAll(TrimPrefix(raw, <<NAK>>), <<13>>, <<>>), <<10>>, <<>>)
        parts == Split(clean, <<94>>)                                  \* "^"
        city == IF HasPrefix(parts[1], <<37, 66, 67>>)                 \* "%BC"
                THEN TrimSpace(TrimPrefix(parts[1], <<37, 66, 67>>)) ELSE <<>>
        nameParts == IF Len(parts) >= 2 THEN Split(parts[2], <<44>>) ELSE <<>>   \* ","
        hasName == Len(nameParts) >= 2
        fullName == IF hasName THEN TrimSpace(TrimPrefix(nameParts[2], <<36>>)) ELSE <<>>
        fnParts == SplitN2(fullName, <<32>>)
        addressPart == IF Len(parts) >= 3 THEN parts[3] ELSE <<>>
        hasDollar == Len(parts) >= 3 /\ Contains(addressPart, <<36>>)  \* "$"
        addressParts == Split(addressPart, <<36>>)
        statePostalPart == IF hasDollar /\ Len(addressParts) > 1
                           THEN TrimSpace(addressParts[2]) ELSE <<>>
        full == licenseNumMatch(clean)
        dateStr == dateMatch(clean)
        dobYearShort == Slice(dateStr, 6, 8)
        dobYear == IF Atoi(dobYearShort) > yy
                   THEN <<49, 57>> \o dobYearShort                     \* "19"
                   ELSE <<50, 48>> \o dobYearShort                     \* "20"
        sh == sexHeight(clean)
    IN [LicenseData EXCEPT
          !.RawData = raw,
          !.LicenseClass = <<78, 65>>,                                 \* "NA"
          !.City = city,
          !.LastName = IF hasName THEN TrimSpace(TrimPrefix(nameParts[1], <<36>>)) ELSE <<>>,
          !.FirstName = IF hasName THEN fnParts[1] ELSE <<>>,
          !.MiddleName = IF hasName /\ Len(fnParts) > 1 THEN fnParts[2] ELSE <<>>,
          !.Address = IF Len(parts) >= 3
                      THEN (IF hasDollar THEN TrimSpace(addressParts[1])
                            ELSE TrimSpace(addressPart))
                      ELSE <<>>,
          !.State = IF Contains(statePostalPart, <<66, 67>>) THEN <<66, 67>> ELSE <<>>,
          !.Postal = postalRegex(statePostalPart),
          !.LicenseNumber = IF Len(full) >= 7 THEN SliceFrom(full, Len(full) - 7) ELSE <<>>,
          !.ExpiryDate = IF dateStr = <<>> THEN <<>>
                         ELSE <<50, 48>> \o Slice(dateStr, 4, 6) \o <<45>>
                              \o Slice(dateStr, 2, 4) \o <<45>> \o Slice(dateStr, 0, 2),
          !.Dob = IF dateStr = <<>> THEN <<>>
                  ELSE dobYear \o <<45>> \o Slice(dateStr, 8, 10) \o <<45>>
                       \o Slice(dateStr, 10, 12),
          !.Sex = IF sh = <<>> THEN <<>> ELSE Slice(sh, 0, 1),
          !.Height = IF sh = <<>> THEN <<>> ELSE Slice(sh, 1, 4) \o <<99, 109>>]   \* "cm"

\* mutant of SlashDate: the value is cut to 8 characters and not delimited
SlashDateUndelimited(d) == Slice(d, 0, 8)

\* fmt.Sprintf("%s/%s/%s", d[0:4], d[4:6], d[6:8])
SlashDate(d) == Slice(d, 0, 4) \o <<47>> \o Slice(d, 4, 6) \o <<47>> \o Slice(d, 6, 8)

\* the non-empty trimmed lines of raw, in order (parsedLines)
RECURSIVE TrimmedLines(_)
TrimmedLines(lines) ==
    IF lines = <<>> THEN <<>>
    ELSE (IF TrimSpace(Head(lines)) # <<>> THEN <<TrimSpace(Head(lines))>> ELSE <<>>)
         \o TrimmedLines(Tail(lines))

\* mutant of AAMVALine: a DAQ line sets the license number even when a DCF
\* line has set it
AAMVALineDAQOverwrites(acc, line) ==
    LET v == TrimSpace(SliceFrom(line, 3))
        Set(k, val) == [acc EXCEPT !.d[k] = val, !.has = @ \cup {k}]
        code == IF Len(line) >= 3 THEN Slice(line, 0, 3) ELSE <<>>
        a1 == IF code = <<68, 67, 83>> THEN Set("LastName", v)               \* DCS
              ELSE IF code = <<68, 65, 67>> THEN Set("FirstName", v)         \* DAC
              ELSE IF code = <<68, 65, 68>> THEN Set("MiddleName", v)        \* DAD
              ELSE IF code = <<68, 66, 65>>                                  \* DBA
                   THEN (IF Len(v) >= 8 THEN Set("ExpiryDate", SlashDate(v)) ELSE acc)
              ELSE IF code = <<68, 66, 68>>                                  \* DBD
                   THEN (IF Len(v) >= 8 THEN Set("IssueDate", SlashDate(v)) ELSE acc)
              ELSE IF code = <<68, 66, 66>>                                  \* DBB
                   THEN (IF Len(v) >= 8 THEN Set("Dob", SlashDate(v)) ELSE acc)
              ELSE IF code = <<68, 66, 67>>                                  \* DBC
                   THEN Set("Sex", IF v = <<49>> THEN <<77>>
                                   ELSE IF v = <<50>> THEN <<70>> ELSE v)
              ELSE IF code = <<68, 65, 85>>                                  \* DAU
                   THEN Set("Height", ReplaceAll(v, <<32>>, <<>>))
              ELSE IF code = <<68, 65, 71>> THEN Set("Address", v)           \* DAG
              ELSE IF code = <<68, 65, 73>> THEN Set("City", v)              \* DAI
              ELSE IF code = <<68, 65, 74>> THEN Set("State", v)             \* DAJ
              ELSE IF code = <<68, 65, 75>> THEN Set("Postal", v)            \* DAK
              ELSE IF code = <<68, 67, 70>> THEN Set("LicenseNumber", v)     \* DCF
              ELSE IF code = <<68, 65, 81>>                                  \* DAQ
                   THEN Set("LicenseNumber", v)
              ELSE acc
    IN IF Contains(line, <<68, 67, 65, 71>>) /\ licenseClassMatch(line) # <<>>   \* DCAG
       THEN [a1 EXCEPT !.lc = licenseClassMatch(line)]
       ELSE a1

\* one iteration of the loop over parsedLines: acc holds the data map (d),
\* the keys set in it (has) and licenseClass (lc)
AAMVALine(acc, line) ==
    LET v == TrimSpace(SliceFrom(line, 3))
        Set(k, val) == [acc EXCEPT !.d[k] = val, !.has = @ \cup {k}]
        code == IF Len(line) >= 3 THEN Slice(line, 0, 3) ELSE <<>>
        a1 == IF code = <<68, 67, 83>> THEN Set("LastName", v)               \* DCS
              ELSE IF code = <<68, 65, 67>> THEN Set("FirstName", v)         \* DAC
              ELSE IF code = <<68, 65, 68>> THEN Set("MiddleName", v)        \* DAD
              ELSE IF code = <<68, 66, 65>>                                  \* DBA
                   THEN (IF Len(v) >= 8 THEN Set("ExpiryDate", SlashDate(v)) ELSE acc)
              ELSE IF code = <<68, 66, 68>>                                  \* DBD
                   THEN (IF Len(v) >= 8 THEN Set("IssueDate", SlashDate(v)) ELSE acc)
              ELSE IF code = <<68, 66, 66>>                                  \* DBB
                   THEN (IF Len(v) >= 8 THEN Set("Dob", SlashDate(v)) ELSE acc)
              ELSE IF code = <<68, 66, 67>>                                  \* DBC
                   THEN Set("Sex", IF v = <<49>> THEN <<77>>
                                   ELSE IF v = <<50>> THEN <<70>> ELSE v)
              ELSE IF code = <<68, 65, 85>>                                  \* DAU
                   THEN Set("Height", ReplaceAll(v, <<32>>, <<>>))
              ELSE IF code = <<68, 65, 71>> THEN Set("Address", v)           \* DAG
              ELSE IF code = <<68, 65, 73>> THEN Set("City", v)              \* DAI
              ELSE IF code = <<68, 65, 74>> THEN Set("State", v)             \* DAJ
              ELSE IF code = <<68, 65, 75>> THEN Set("Postal", v)            \* DAK
              ELSE IF code = <<68, 67, 70>> THEN Set("LicenseNumber", v)     \* DCF
              ELSE IF code = <<68, 65, 81>>                                  \* DAQ
                   THEN (IF "LicenseNumber" \notin acc.has
                         THEN Set("LicenseNumber", v) ELSE acc)
              ELSE acc
    IN IF Contains(line, <<68, 67, 65, 71>>) /\ licenseClassMatch(line) # <<>>   \* DCAG
       THEN [a1 EXCEPT !.lc = licenseClassMatch(line)]
       ELSE a1

\* mutant of AAMVALines: the loop ends at the first line that sets nothing
RECURSIVE AAMVALinesStopAtUnknown(_, _)
AAMVALinesStopAtUnknown(acc, lines) ==
    IF lines = <<>> \/ AAMVALine(acc, Head(lines)) = acc THEN acc
    ELSE AAMVALinesStopAtUnknown(AAMVALine(acc, Head(lines)), Tail(lines))

RECURSIVE AAMVALines(_, _)
AAMVALines(acc, lines) ==
    IF lines = <<>> THEN acc
    ELSE AAMVALines(AAMVALine(acc, Head(lines)), Tail(lines))

\* parseAAMVALicenseData(raw)
parseAAMVALicenseData(raw) ==
    LET clean == TrimPrefix(raw, <<NAK>>)
        parsedLines == TrimmedLines(Split(clean, <<10>>))
        acc == AAMVALines([d |-> LicenseData, has |-> {}, lc |-> <<>>], parsedLines)
    IN [acc.d EXCEPT
          !.LicenseClass = IF acc.lc = <<>> THEN <<78, 65>> ELSE acc.lc,    \* "NA"
          !.RawData = clean]

\* mutant of parseLicenseData: the provincial result is always returned
parseLicenseDataNoFallback(raw, yy) == parseBCLicenseData(raw, yy)

\* parseLicenseData(raw): format detection and dispatch
parseLicenseData(raw, yy) ==
    LET cleanRaw == TrimPrefix(raw, <<NAK>>)
    IN IF Contains(cleanRaw, <<37, 66, 67>>) THEN parseBCLicenseData(raw, yy)        \* %BC
       ELSE IF Contains(cleanRaw, <<37, 65, 66>>) THEN parseBCLicenseData(raw, yy)   \* %AB
       ELSE IF Contains(cleanRaw, <<65, 78, 83, 73, 32>>)                            \* "ANSI "
            THEN parseAAMVALicenseData(raw)
       ELSE IF Contains(cleanRaw, <<68, 67, 83>>) \/ Contains(cleanRaw, <<68, 65, 81>>)
            THEN parseAAMVALicenseData(raw)                                          \* DCS, DAQ
       ELSE LET license == parseBCLicenseData(raw, yy)
            IN IF license.FirstName = <<>> /\ license.LastName = <<>>
                  /\ license.LicenseNumber = <<>>
               THEN parseAAMVALicenseData(raw)
               ELSE license

(***************************************************************************)
(* Port resolution.                                                        *)
(***************************************************************************)
\* the platform test of the second loop of findScannerPort
Compatible(goos, port) ==
    \/ goos = "windows" /\ HasPrefix(ToLower(port), <<99, 111, 109>>)             \* "com"
    \/ goos = "darwin"
       /\ Contains(ToLower(port), <<117, 115, 98, 115, 101, 114, 105, 97, 108>>)   \* "usbserial"
    \/ goos = "linux"
       /\ (Contains(port, <<116, 116, 121, 85, 83, 66>>)                           \* "ttyUSB"
           \/ Contains(port, <<117, 115, 98>>))                                    \* "usb"

\* mutant of findScannerPort: without a compatible device the first device
\* is returned
findScannerPortFirstDevice(portOverride, listErr, ports, goos) ==
    LET com4 == {i \in 1..Len(ports) : ToUpper(ports[i]) = <<67, 79, 77, 52>>}
        compat == {i \in 1..Len(ports) : Compatible(goos, ports[i])}
    IN IF portOverride # <<>> THEN [port |-> portOverride, err |-> "nil"]
       ELSE IF listErr THEN [port |-> <<>>, err |-> "enumeration failed"]
       ELSE IF Len(ports) = 0 THEN [port |-> <<>>, err |-> "no serial ports found"]
       ELSE IF com4 # {} THEN [port |-> ports[Least(com4)], err |-> "nil"]
       ELSE IF compat # {} THEN [port |-> ports[Least(compat)], err |-> "nil"]
       ELSE [port |-> ports[1], err |-> "nil"]

\* mutant of findScannerPort: COM4 is not looked for first
findScannerPortNoPreference(portOverride, listErr, ports, goos) ==
    LET compat == {i \in 1..Len(ports) : Compatible(goos, ports[i])}
    IN IF portOverride # <<>> THEN [port |-> portOverride, err |-> "nil"]
       ELSE IF listErr THEN [port |-> <<>>, err |-> "enumeration failed"]
       ELSE IF Len(ports) = 0 THEN [port |-> <<>>, err |-> "no serial ports found"]
       ELSE IF compat # {} THEN [port |-> ports[Least(compat)], err |-> "nil"]
       ELSE [port |-> <<>>, err |-> "no compatible port found"]

\* findScannerPort(portOverride): listErr and ports are what
\* serial.GetPortsList returns, goos is runtime.GOOS
findScannerPort(portOverride, listErr, ports, goos) ==
    LET com4 == {i \in 1..Len(ports) : ToUpper(ports[i]) = <<67, 79, 77, 52>>}     \* "COM4"
        compat == {i \in 1..Len(ports) : Compatible(goos, ports[i])}
    IN IF portOverride # <<>> THEN [port |-> portOverride, err |-> "nil"]
       ELSE IF listErr THEN [port |-> <<>>, err |-> "enumeration failed"]
       ELSE IF Len(ports) = 0 THEN [port |-> <<>>, err |-> "no serial ports found"]
       ELSE IF com4 # {} THEN [port |-> ports[Least(com4)], err |-> "nil"]
       ELSE IF compat # {} THEN [port |-> ports[Least(compat)], err |-> "nil"]
       ELSE [port |-> <<>>, err |-> "no compatible port found"]

(***************************************************************************)
(* Inputs: configuration (the command-line flags), the serial devices the  *)
(* OS enumerates, and what the scanner sends.                              *)
(***************************************************************************)
COM4 == <<67, 79, 77, 52>>                                     \* "COM4"
COM3 == <<67, 79, 77, 51>>                                     \* "COM3"
TtyUSB0 == <<47, 100, 101, 118, 47, 116, 116, 121, 85, 83, 66, 48>>   \* "/dev/ttyUSB0"
TtyS0 == <<47, 100, 101, 118, 47, 116, 116, 121, 83, 48>>      \* "/dev/ttyS0"
CON3 == <<67, 79, 78, 51>>                                     \* "CON3"

\* values of the -timeout flag, in seconds
TimeoutFlags == {10}

\* readTimeout is time.Duration(*readTimeoutFlag) * time.Second
Configs ==
    [portOverride : {<<>>, COM4}, scannerPort : {CON3},
     useSimpleCommand : BOOLEAN, useMacSettings : BOOLEAN,
     readTimeout : {f * TicksPerSecond : f \in TimeoutFlags}]

PortLists == {<<>>, <<COM3, COM4>>, <<TtyS0, TtyUSB0>>, <<TtyS0>>}
Platforms == {"windows", "linux"}
\* the requests of the two-request specification
Requests == {1, 2}
\* no request has arrived
NoRequests ==
    [r \in Requests |->
        [pc |-> "idle", open |-> FALSE, got |-> <<>>, err |-> "nil", bg |-> FALSE]]
\* no device, no failure
NoEnv == [ports |-> <<>>, listErr |-> FALSE, goos |-> "windows"]

\* time.Now().Year() % 100 at the time of the scan
CurrentYears == {25, 26}

\* what the scanner answers to one command
Payloads ==
    { <<>>,                                                    \* nothing at all
      <<21>>,                                                  \* NAK
      <<21, 13, 10>>,                                          \* NAK \r \n
      <<21, 65>>,                                              \* NAK "A"
      <<21, 37, 66, 67, 10>>,                                  \* NAK "%BC\n"
      <<32, 13, 10>>,                                          \* " \r\n"
      <<194, 160, 10>>,                                        \* U+00A0 "\n"
      <<65, 65, 65>>,                                          \* "AAA"
      \* "DCSSMITH\nDACJOHN\nDBA20300615\nDBC1\n"
      <<68,67,83,83,77,73,84,72,10,68,65,67,74,79,72,78,10,68,66,65,50,48,51,48,
        48,54,49,53,10,68,66,67,49,10>>,
      \* "ANSI \nDBC2\n"
      <<65,78,83,73,32,10,68,66,67,50,10>>,
      \* "DAI TOWN\n"
      <<68,65,73,32,84,79,87,78,10>>,
      \* "%ABCALGARY^DOE,$JANE^1 ELM ST^"
      <<37,65,66,67,65,76,71,65,82,89,94,68,79,69,44,36,74,65,78,69,94,49,32,69,
        76,77,32,83,84,94>>,
      \* "%BCVICTORIA^SMITH,$JOHN A^123 MAIN ST$BC V8W 1A1^;1234567890123=271220051212=M180"
      <<37,66,67,86,73,67,84,79,82,73,65,94,83,77,73,84,72,44,36,74,79,72,78,32,
        65,94,49,50,51,32,77,65,73,78,32,83,84,36,66,67,32,86,56,87,32,49,65,49,
        94,59,49,50,51,52,53,54,55,56,57,48,49,50,51,61,50,55,49,50,50,48,48,53,
        49,50,49,50,61,77,49,56,48>> }

\* the fragment a device that never goes idle keeps sending
DribbleFragment == <<65>>                                      \* "A"

(***************************************************************************)
(* Program constants.                                                      *)
(***************************************************************************)
\* maxWaitTime := 3 * time.Second
maxWaitTime == 3 * TicksPerSecond
\* mutant of perReadTimeout: a third of it
perReadTimeoutShort == TicksPerSecond
\* the timeout readWithTimeout is called with: 3*time.Second
perReadTimeout == 3 * TicksPerSecond
\* tmp := make([]byte, 128)
TmpSize == 128
\* ch := make(chan readResult, 1): the capacity of a read's result channel
chCap == 1

\* the command scannerHandler builds
Command(c) ==
    IF c.useSimpleCommand
    THEN <<60, 84, 88, 80, 73, 78, 71, 62>>                                   \* "<TXPING>"
    ELSE <<60, 84, 88, 80, 73, 78, 71, 44>> \o c.scannerPort \o <<62>>        \* "<TXPING,%s>"

\* mutant of Envelope: the closing EOT is left out
EnvelopeNoEOT(commandStr) == <<SOH>> \o commandStr

\* cmd := append([]byte{0x01}, append([]byte(commandStr), 0x04)...)
Envelope(commandStr) == <<SOH>> \o commandStr \o <<EOT>>

\* the serial.Mode sendScannerCommand opens the port with
ModeFor(useMacSettings) ==
    IF useMacSettings THEN [BaudRate |-> 9600, DataBits |-> 8]
    ELSE [BaudRate |-> 1200, DataBits |-> 7]

(***************************************************************************)
(* The responses of scannerHandler.                                        *)
(***************************************************************************)
NoLicense == [LicenseData EXCEPT !.RawData = <<>>]

\* no response written yet
NoResponse ==
    [code |-> 0, status |-> "", message |-> "", keys |-> {},
     licenseData |-> NoLicense, rawResponse |-> <<>>, rawResponseHex |-> <<>>]

\* mutant of writeJSONError: w.WriteHeader(status) is left out
writeJSONErrorNoHeader(status, msg) ==
    [NoResponse EXCEPT !.code = 200, !.status = "error", !.message = msg,
                       !.keys = {"status", "message"}]

\* writeJSONError(w, status, err)
writeJSONError(status, msg) ==
    [NoResponse EXCEPT !.code = status, !.status = "error", !.message = msg,
                       !.keys = {"status", "message"}]

\* allFieldsEmpty of scannerHandler
allFieldsEmpty(l) ==
    /\ l.FirstName = <<>>
    /\ l.LastName = <<>>
    /\ l.Address = <<>>
    /\ l.City = <<>>
    /\ l.LicenseNumber = <<>>

\* mutant of IsNAKOnly: only the two-byte form is recognised
IsNAKOnlyTwoBytes(trimmedResult) ==
    Len(trimmedResult) = 2 /\ HasPrefix(trimmedResult, <<NAK>>)

\* the NAK-only test of scannerHandler on the trimmed result
IsNAKOnly(trimmedResult) ==
    \/ trimmedResult = <<NAK>>
    \/ Len(trimmedResult) <= 2 /\ HasPrefix(trimmedResult, <<NAK>>)

\* utf8.DecodeRuneInString(s[i-1:]): the rune at byte i of s and its width
DecodeAt(s, i) ==
    DecodeBytes(ByteAt(s, i), ByteAt(s, i + 1), ByteAt(s, i + 2), ByteAt(s, i + 3))

\* the bytes of s at which the encoder, going through s rune by rune, finds
\* (RuneError, 1): those no valid sequence begun up to three bytes earlier
\* covers and at which no valid sequence begins
InvalidBytes(s) ==
    {i \in 1..Len(s) :
        /\ DecodeAt(s, i) = [r |-> RuneError, w |-> 1]
        /\ \A j \in 1..3 : j < i => DecodeAt(s, i - j).w <= j}

\* s with each byte of bad written as U+FFFD
ReplaceInvalid(s, bad) ==
    IF bad = {} THEN s
    ELSE [k \in 1..(Len(s) + 2 * Cardinality(bad)) |->
            LET i == CHOOSE i \in 1..Len(s) :
                        /\ i + 2 * Cardinality({b \in bad : b < i}) <= k
                        /\ k <= i + 2 * Cardinality({b \in bad : b <= i})
                at == k - (i + 2 * Cardinality({b \in bad : b < i}))
            IN IF i \in bad THEN EncodeRune(RuneError)[at + 1] ELSE s[i]]

\* json.NewEncoder(w).Encode on a string: the string the body carries.  The
\* encoder walks s rune by rune and writes every byte that does not start a
\* valid UTF-8 sequence as U+FFFD; its escapes (quote, backslash, control
\* bytes, <, >, &, U+2028, U+2029) denote the character they replace.
EncodedString(s) == ReplaceInvalid(s, InvalidBytes(s))

\* json.NewEncoder(w).Encode on a LicenseData: every field is a string
EncodedLicense(l) == [f \in DOMAIN l |-> EncodedString(l[f])]

\* the part of scannerHandler that follows the return of sendScannerCommand:
\* the response written for (result, err), with the strings of its JSON
\* body; yy is the current two-digit year
HandlerResponse(result, e, yy) ==
    IF e # "nil" THEN writeJSONError(500, e)
    ELSE IF TrimSpace(result) = <<>> THEN writeJSONError(404, "empty response from scanner")
    ELSE IF IsNAKOnly(TrimSpace(result))
         THEN writeJSONError(404, "no license scanned (NAK received)")
    ELSE LET l == parseLicenseData(result, yy)
         IN IF allFieldsEmpty(l)
            THEN [code |-> 200, status |-> "warning",
                  message |-> "Received data but no license fields were populated",
                  keys |-> {"status", "message", "licenseData", "rawResponse",
                            "rawResponseHex"},
                  licenseData |-> EncodedLicense(l),
                  rawResponse |-> EncodedString(result),
                  rawResponseHex |-> EncodeToString(result)]
            ELSE [NoResponse EXCEPT !.code = 200, !.status = "success",
                                    !.keys = {"status", "licenseData"},
                                    !.licenseData = EncodedLicense(l)]

\* TRUE when scannerHandler reaches its call of parseLicenseData
HandlerParses(result, e) ==
    e = "nil" /\ TrimSpace(result) # <<>> /\ ~IsNAKOnly(TrimSpace(result))

(***************************************************************************)
(* State.                                                                  *)
(***************************************************************************)
VARIABLES
    cfg,              \* the flags main passes to scannerHandler
    pc,               \* position of the request: "idle", "open", "write", "loop",
                      \* "reading", "return", "handle", "done"
    now,              \* the clock, in ticks since the request arrived
    portName,         \* the port findScannerPort resolved
    port,             \* the port handle: "none", "open", "closed"
    mode,             \* the serial.Mode the port was opened with
    opens,            \* calls of serial.Open
    writes,           \* calls of port.Write
    written,          \* the bytes handed to port.Write
    reads,            \* calls of port.Read (one per readWithTimeout)
    closes,           \* calls of port.Close
    deadline,         \* deadline of the read loop
    readStart,        \* when the read in flight was issued
    hasReceivedData,  \* the flag of the read loop
    responseBuffer,   \* the accumulated response
    abandoned,        \* background reads left blocked in port.Read by a timeout
    timeouts,         \* per-read timeouts met by the loop
    fragments,        \* fragments the loop received
    dev,              \* the scanner: rem is what it still has to send, left the
                      \* number of fragments it may still split rem into; an
                      \* endless scanner sends rem again and again
    sent,             \* fragments an endless scanner sent during the current tick
    result,           \* the string sendScannerCommand returns
    err,              \* the error sendScannerCommand returns, "nil" for none
    parsed,           \* calls of parseLicenseData
    response,         \* the HTTP response written
    raw,              \* the payload a parser is called with
    year,             \* time.Now().Year() % 100 at that call
    parser,           \* the parser that was called, "none" before the call
    license,          \* the LicenseData it returned
    env,              \* what findScannerPort finds: the devices serial.GetPortsList
                      \* returns, whether it fails, and runtime.GOOS
    obtained,         \* the bytes the reads of the request obtained from the
                      \* port until the read loop ended, in the order of arrival
    zeroReads,         \* reads that returned 0 bytes and no error
    reqs,             \* overlapping scan requests: position, handle, bytes read,
                      \* error, and whether a background read is left blocked
    wire              \* bytes the scanner has put on the serial line, not yet read

vars ==
    <<cfg, pc, now, portName, port, mode, opens, writes, written, reads, closes,
      deadline, readStart, hasReceivedData, responseBuffer, abandoned, timeouts,
      fragments, dev, sent, result, err, parsed, response, raw, year, parser,
      license, env, obtained, zeroReads, reqs, wire>>

parseVars == <<raw, year, parser, license>>
auxVars == <<parseVars, env, reqs, wire>>
ioVars == <<opens, writes, written, reads, closes>>
loopVars == <<deadline, readStart, hasReceivedData, responseBuffer, timeouts, fragments>>

Init ==
    /\ cfg \in Configs
    /\ pc = "idle"
    /\ now = 0
    /\ portName = <<>>
    /\ port = "none"
    /\ mode = [BaudRate |-> 0, DataBits |-> 0]
    /\ opens = 0 /\ writes = 0 /\ written = <<>> /\ reads = 0 /\ closes = 0
    /\ deadline = 0 /\ readStart = 0
    /\ hasReceivedData = FALSE
    /\ responseBuffer = <<>>
    /\ abandoned = 0
    /\ timeouts = 0 /\ fragments = 0
    /\ dev = [endless |-> FALSE, rem |-> <<>>, left |-> 0]
    /\ sent = 0
    /\ result = <<>>
    /\ err = "nil"
    /\ parsed = 0
    /\ response = NoResponse
    /\ raw = <<>> /\ year = 0 /\ parser = "none" /\ license = LicenseData
    /\ env = NoEnv
    /\ obtained = <<>>
    /\ zeroReads = 0
    /\ reqs = NoRequests
    /\ wire = <<>>

(***************************************************************************)
(* scannerHandler and sendScannerCommand, step by step.                    *)
(***************************************************************************)
\* scannerHandler is entered, builds the command and calls sendScannerCommand,
\* which resolves the port: on failure it returns the error at once
ScanRequest ==
    /\ pc = "idle"
    /\ \E listErr \in BOOLEAN, ports \in PortLists, goos \in Platforms :
         LET r == findScannerPort(cfg.portOverride, listErr, ports, goos)
         IN /\ portName' = r.port
            /\ err' = r.err
            /\ pc' = IF r.err = "nil" THEN "open" ELSE "handle"
    /\ UNCHANGED <<auxVars, obtained, zeroReads>>
    /\ UNCHANGED <<cfg, now, port, mode, ioVars, loopVars, abandoned, dev, sent,
                   result, parsed, response>>

\* mutant of OpenPort: a failed open is tried again
OpenPortRetries ==
    /\ pc = "open"
    /\ opens' = opens + 1
    /\ \E ok \in BOOLEAN :
         IF ok
         THEN /\ port' = "open"
              /\ mode' = ModeFor(cfg.useMacSettings)
              /\ pc' = "write"
         ELSE /\ pc' = "open"
              /\ UNCHANGED <<port, mode>>
    /\ UNCHANGED <<auxVars, obtained, zeroReads>>
    /\ UNCHANGED <<cfg, now, portName, writes, written, reads, closes, loopVars,
                   abandoned, dev, sent, result, err, parsed, response>>

\* serial.Open(portName, mode); defer port.Close() when it succeeded
OpenPort ==
    /\ pc = "open"
    /\ opens' = opens + 1
    /\ \E ok \in BOOLEAN :
         IF ok
         THEN /\ port' = "open"
              /\ mode' = ModeFor(cfg.useMacSettings)
              /\ pc' = "write"
              /\ err' = err
         ELSE /\ err' = "open port failed"
              /\ pc' = "handle"
              /\ UNCHANGED <<port, mode>>
    /\ UNCHANGED <<auxVars, obtained, zeroReads>>
    /\ UNCHANGED <<cfg, now, portName, writes, written, reads, closes, loopVars,
                   abandoned, dev, sent, result, parsed, response>>

\* port.Write(cmd); on success the loop state is set up and the scanner
\* decides what it answers
WriteCommand ==
    /\ pc = "write"
    /\ writes' = writes + 1
    /\ written' = written \o Envelope(Command(cfg))
    /\ \E ok \in BOOLEAN :
         IF ok
         THEN /\ deadline' = now + maxWaitTime
              /\ \E d \in [endless : {FALSE}, rem : Payloads, left : {MaxFragments}]
                          \cup {[endless |-> TRUE, rem |-> DribbleFragment, left |-> 1]} :
                       dev' = d
              /\ pc' = "loop"
              /\ err' = err
         ELSE /\ err' = "write failed"
              /\ pc' = "return"
              /\ UNCHANGED <<deadline, dev>>
    /\ UNCHANGED <<auxVars, obtained, zeroReads>>
    /\ UNCHANGED <<cfg, now, portName, port, mode, opens, reads, closes, readStart,
                   hasReceivedData, responseBuffer, timeouts, fragments, abandoned,
                   sent, result, parsed, response>>

\* the loop condition time.Now().Before(deadline): either the next
\* readWithTimeout is issued or the loop is left and the buffer returned
LoopHead ==
    /\ pc = "loop"
    /\ IF now < deadline
       THEN /\ pc' = "reading"
            /\ readStart' = now
            /\ reads' = reads + 1
            /\ UNCHANGED <<result>>
       ELSE /\ pc' = "return"
            /\ result' = responseBuffer
            /\ UNCHANGED <<readStart, reads>>
    /\ UNCHANGED <<auxVars, obtained, zeroReads>>
    /\ UNCHANGED <<cfg, now, portName, port, mode, opens, writes, written, closes,
                   deadline, hasReceivedData, responseBuffer, timeouts, fragments,
                   abandoned, dev, sent, err, parsed, response>>

\* the scanner has something to send now
DevReady == IF dev.endless THEN sent < RatePerTick ELSE dev.rem # <<>>

\* the sizes of the fragment the scanner may send next: one byte, half of
\* what is left or all of it, never more than the read buffer takes
FragmentSizes ==
    LET n == Len(dev.rem)
    IN IF dev.endless \/ dev.left <= 1 THEN {Min(n, TmpSize)}
       ELSE {k \in {1, n \div 2, n} : 1 <= k /\ k <= TmpSize}

\* the device after it has sent the first k bytes of what it has
DevAfter(k) ==
    IF dev.endless THEN dev
    ELSE [dev EXCEPT !.rem = SliceFrom(dev.rem, k),
                     !.left = IF dev.left > 0 THEN dev.left - 1 ELSE 0]

\* the tick's count of fragments after one more fragment
SentAfter == IF dev.endless THEN sent + 1 ELSE sent

\* readWithTimeout returns n > 0 bytes: the fragment is appended
ReadData ==
    /\ pc = "reading"
    /\ DevReady
    /\ \E k \in FragmentSizes :
         /\ responseBuffer' = responseBuffer \o Slice(dev.rem, 0, k)
         /\ obtained' = obtained \o Slice(dev.rem, 0, k)
         /\ dev' = DevAfter(k)
    /\ hasReceivedData' = TRUE
    /\ fragments' = fragments + 1
    /\ sent' = SentAfter
    /\ pc' = "loop"
    /\ UNCHANGED <<auxVars, zeroReads>>
    /\ UNCHANGED <<cfg, now, portName, port, mode, ioVars, deadline, readStart,
                   timeouts, abandoned, result, err, parsed, response>>

\* mutant of ReadZero: the flag is set only when bytes were read
ReadZeroKeepsFlag ==
    /\ pc = "reading"
    /\ zeroReads < MaxZeroReads
    /\ zeroReads' = zeroReads + 1
    /\ fragments' = fragments + 1
    /\ pc' = "loop"
    /\ UNCHANGED <<auxVars, obtained>>
    /\ UNCHANGED <<cfg, now, portName, port, mode, ioVars, deadline, readStart,
                   hasReceivedData, responseBuffer, timeouts, abandoned, dev, sent,
                   result, err, parsed, response>>

\* readWithTimeout returns 0 bytes and no error: hasReceivedData is set and
\* tmp[:0] is appended
ReadZero ==
    /\ pc = "reading"
    /\ zeroReads < MaxZeroReads
    /\ zeroReads' = zeroReads + 1
    /\ hasReceivedData' = TRUE
    /\ fragments' = fragments + 1
    /\ pc' = "loop"
    /\ UNCHANGED <<auxVars, obtained>>
    /\ UNCHANGED <<cfg, now, portName, port, mode, ioVars, deadline, readStart,
                   responseBuffer, timeouts, abandoned, dev, sent, result, err,
                   parsed, response>>

\* mutant of ReadError: what was accumulated is returned with the error
ReadErrorKeepsBuffer ==
    /\ pc = "reading"
    /\ err' = "io error"
    /\ result' = responseBuffer
    /\ pc' = "return"
    /\ UNCHANGED <<auxVars, obtained, zeroReads>>
    /\ UNCHANGED <<cfg, now, portName, port, mode, ioVars, loopVars, abandoned, dev,
                   sent, parsed, response>>

\* readWithTimeout returns an error of port.Read: return "", err
ReadError ==
    /\ pc = "reading"
    /\ err' = "io error"
    /\ result' = <<>>
    /\ pc' = "return"
    /\ UNCHANGED <<auxVars, obtained, zeroReads>>
    /\ UNCHANGED <<cfg, now, portName, port, mode, ioVars, loopVars, abandoned, dev,
                   sent, parsed, response>>

\* mutant of ReadTimeout: every timeout ends the loop (break)
ReadTimeoutAlwaysBreaks ==
    /\ pc = "reading"
    /\ now >= readStart + perReadTimeout
    /\ abandoned' = abandoned + 1
    /\ timeouts' = timeouts + 1
    /\ pc' = "return"
    /\ result' = responseBuffer
    /\ UNCHANGED <<auxVars, obtained, zeroReads>>
    /\ UNCHANGED <<cfg, now, portName, port, mode, ioVars, deadline, readStart,
                   hasReceivedData, responseBuffer, fragments, dev, sent, err,
                   parsed, response>>

\* mutant of ReadTimeout: no timeout ends the loop (continue)
ReadTimeoutAlwaysContinues ==
    /\ pc = "reading"
    /\ now >= readStart + perReadTimeout
    /\ abandoned' = abandoned + 1
    /\ timeouts' = timeouts + 1
    /\ pc' = "loop"
    /\ UNCHANGED <<auxVars, obtained, zeroReads>>
    /\ UNCHANGED <<cfg, now, portName, port, mode, ioVars, deadline, readStart,
                   hasReceivedData, responseBuffer, fragments, dev, sent, result, err,
                   parsed, response>>

\* the timer of readWithTimeout wins the select: "read timeout"; the
\* background read stays blocked in port.Read
ReadTimeout ==
    /\ pc = "reading"
    /\ now >= readStart + perReadTimeout
    /\ abandoned' = abandoned + 1
    /\ timeouts' = timeouts + 1
    /\ IF hasReceivedData
       THEN /\ pc' = "return"                 \* break
            /\ result' = responseBuffer
       ELSE /\ pc' = "loop"                   \* continue
            /\ UNCHANGED result
    /\ UNCHANGED <<auxVars, obtained, zeroReads>>
    /\ UNCHANGED <<cfg, now, portName, port, mode, ioVars, deadline, readStart,
                   hasReceivedData, responseBuffer, fragments, dev, sent, err,
                   parsed, response>>

\* time passes while the request is blocked in readWithTimeout
Tick ==
    /\ pc = "reading"
    /\ now < readStart + perReadTimeout
    /\ now' = now + 1
    /\ sent' = 0
    /\ UNCHANGED <<auxVars, obtained, zeroReads>>
    /\ UNCHANGED <<cfg, pc, portName, port, mode, ioVars, loopVars, abandoned, dev,
                   result, err, parsed, response>>

\* mutant of SendReturn: the deferred port.Close() is missing
SendReturnLeavesOpen ==
    /\ pc = "return"
    /\ pc' = "handle"
    /\ UNCHANGED <<auxVars, obtained, zeroReads>>
    /\ UNCHANGED <<cfg, now, portName, port, mode, ioVars, loopVars, abandoned, dev,
                   sent, result, err, parsed, response>>

\* sendScannerCommand returns: the deferred port.Close() runs
SendReturn ==
    /\ pc = "return"
    /\ port' = "closed"
    /\ closes' = closes + 1
    /\ pc' = "handle"
    /\ UNCHANGED <<auxVars, obtained, zeroReads>>
    /\ UNCHANGED <<cfg, now, portName, mode, opens, writes, written, reads, loopVars,
                   abandoned, dev, sent, result, err, parsed, response>>

\* mutant of AbandonedReadReturns: closing the port does not end a blocked
\* port.Read
AbandonedReadReturnsOnData ==
    /\ abandoned > 0
    /\ chCap > 0
    /\ port = "open"
    /\ DevReady
    /\ \E k \in FragmentSizes :
          /\ dev' = DevAfter(k)
          /\ obtained' = IF pc \in {"loop", "reading"}
                         THEN obtained \o Slice(dev.rem, 0, k)
                         ELSE obtained
    /\ sent' = SentAfter
    /\ abandoned' = abandoned - 1
    /\ UNCHANGED <<auxVars, zeroReads>>
    /\ UNCHANGED <<cfg, pc, now, portName, port, mode, ioVars, loopVars, result, err,
                   parsed, response>>

\* an abandoned background read returns: with bytes the scanner sent (they
\* go to a channel nobody reads), or with an error once the port is closed.
\* The goroutine then sends its result to its own channel, which holds
\* nothing (readWithTimeout took the timer case): the send needs one free
\* slot and no receiver, and the goroutine ends
AbandonedReadReturns ==
    /\ abandoned > 0
    /\ chCap > 0
    /\ \/ /\ port = "open"
          /\ DevReady
          /\ \E k \in FragmentSizes :
                /\ dev' = DevAfter(k)
                /\ obtained' = IF pc \in {"loop", "reading"}
                               THEN obtained \o Slice(dev.rem, 0, k)
                               ELSE obtained
          /\ sent' = SentAfter
       \/ /\ port = "closed"
          /\ UNCHANGED <<dev, sent, obtained>>
    /\ abandoned' = abandoned - 1
    /\ UNCHANGED <<auxVars, zeroReads>>
    /\ UNCHANGED <<cfg, pc, now, portName, port, mode, ioVars, loopVars, result, err,
                   parsed, response>>

\* the rest of scannerHandler: classify the result and write the response
Respond ==
    /\ pc = "handle"
    /\ \E yy \in CurrentYears : response' = HandlerResponse(result, err, yy)
    /\ parsed' = IF HandlerParses(result, err) THEN parsed + 1 ELSE parsed
    /\ pc' = "done"
    /\ UNCHANGED <<auxVars, obtained, zeroReads>>
    /\ UNCHANGED <<cfg, now, portName, port, mode, ioVars, loopVars, abandoned, dev,
                   sent, result, err>>

Next ==
    \/ ScanRequest
    \/ OpenPort
    \/ WriteCommand
    \/ LoopHead
    \/ ReadData
    \/ ReadZero
    \/ ReadError
    \/ ReadTimeout
    \/ Tick
    \/ SendReturn
    \/ AbandonedReadReturns
    \/ Respond

Spec == Init /\ [][Next]_vars

\* the same program, started with the default flags, with its goroutines
\* scheduled: the request's goroutine, when it is at the loop condition or
\* at the return of sendScannerCommand, takes that step, and a background
\* goroutine whose port.Read can return does return
FairInit ==
    /\ Init
    /\ cfg = [portOverride |-> COM4, scannerPort |-> CON3, useSimpleCommand |-> TRUE,
              useMacSettings |-> TRUE, readTimeout |-> 10 * TicksPerSecond]

FairSpec ==
    /\ FairInit /\ [][Next]_vars
    /\ WF_vars(LoopHead)
    /\ WF_vars(SendReturn)
    /\ WF_vars(AbandonedReadReturns)

(***************************************************************************)
(* The parsers on their own: a payload and a current year are drawn, and   *)
(* one of parseBCLicenseData, parseAAMVALicenseData and parseLicenseData  *)
(* is called with it.                                                      *)
(***************************************************************************)
\* lines an AAMVA payload is drawn from
MaxLines == 3
\* digits between ";" and "=" in a provincial payload
MaxDigits == 17

\* AAMVA element lines
AAMVAElements ==
    {
      \* DCSSMITH
      <<68,67,83,83,77,73,84,72>>,
      \* DAQ123456789012345
      <<68,65,81,49,50,51,52,53,54,55,56,57,48,49,50,51,52,53>>,
      \* DCFABCDE1234567890
      <<68,67,70,65,66,67,68,69,49,50,51,52,53,54,55,56,57,48>>,
      \* DAQ D1234 
      <<68,65,81,32,68,49,50,51,52,32>>,
      \* DCFX9
      <<68,67,70,88,57>>,
      \* DBA20300615
      <<68,66,65,50,48,51,48,48,54,49,53>>,
      \* DBB1990
      <<68,66,66,49,57,57,48>>,
      \* DBD20200101
      <<68,66,68,50,48,50,48,48,49,48,49>>,
      \* ZZZ HELLO
      <<90,90,90,32,72,69,76,76,79>>,
      \* DCAGC
      <<68,67,65,71,67>> }

\* the lines, each ended by "\n"
RECURSIVE JoinLines(_)
JoinLines(lines) ==
    IF lines = <<>> THEN <<>> ELSE Head(lines) \o <<10>> \o JoinLines(Tail(lines))

\* payloads of up to MaxLines different element lines, in any order
AAMVAInputs ==
    {JoinLines(ls) :
        ls \in UNION {{f \in [1..n -> AAMVAElements] :
                          \A i, j \in 1..n : i < j => f[i] # f[j]} : n \in 0..MaxLines}}

\* the segments of a provincial payload up to the last "^"
ProvincialHeads ==
    {
      \* %BCVICTORIA^SMITH,$JOHN A^123 MAIN ST$BC V8W 1A1^
      <<37,66,67,86,73,67,84,79,82,73,65,94,83,77,73,84,72,44,36,74,79,72,78,32,
        65,94,49,50,51,32,77,65,73,78,32,83,84,36,66,67,32,86,56,87,32,49,65,49,
        94>>,
      \* %ABCALGARY^DOE,$JANE^1 ELM ST^
      <<37,65,66,67,65,76,71,65,82,89,94,68,79,69,44,36,74,65,78,69,94,49,32,69,
        76,77,32,83,84,94>> }
\* two-digit birth years
BirthYears == {<<48,53>>, <<50,52>>, <<50,53>>, <<50,54>>, <<50,55>>, <<57,57>>}
DigitPool == <<49,50,51,52,53,54,55,56,57,48,49,50,51,52,53,54,55,56,57,48>>

\* head ; digits = 271220 YY 1212 =   (expiry DDMMYY, birth YYMMDD)
ProvincialInputs ==
    {h \o <<59>> \o SubSeq(DigitPool, 1, n) \o <<61>>
       \o <<50,55,49,50,50,48>> \o b \o <<49,50,49,50>> \o <<61>> :
        h \in ProvincialHeads, n \in 12..MaxDigits, b \in BirthYears}

\* payloads that carry a "%" province marker, alone and together with each of
\* the AAMVA markers
MarkedHeads ==
    {
      \* %BCVICTORIA^SMITH,$JOHN A^1 MAIN ST^
      <<37,66,67,86,73,67,84,79,82,73,65,94,83,77,73,84,72,44,36,74,79,72,78,32,
        65,94,49,32,77,65,73,78,32,83,84,94>>,
      \* %ABCALGARY^DOE,$JANE^1 ELM ST^
      <<37,65,66,67,65,76,71,65,82,89,94,68,79,69,44,36,74,65,78,69,94,49,32,69,
        76,77,32,83,84,94>>,
      \* %ONTORONTO^ROE,$ANN^2 OAK ST^
      <<37,79,78,84,79,82,79,78,84,79,94,82,79,69,44,36,65,78,78,94,50,32,79,65,
        75,32,83,84,94>> }
AAMVATails ==
    {
      \* 
      <<>>,
      \* \nANSI \nDBC2\n
      <<10,65,78,83,73,32,10,68,66,67,50,10>>,
      \* \nDCSLEE\n
      <<10,68,67,83,76,69,69,10>>,
      \* \nDAQX123\n
      <<10,68,65,81,88,49,50,51,10>> }
MarkedInputs == {h \o t : h \in MarkedHeads, t \in AAMVATails}

\* payloads without any marker
UnmarkedInputs ==
    {
      \* X^Y^1 ELM ST
      <<88,94,89,94,49,32,69,76,77,32,83,84>>,
      \* X^Y^1 ELM ST\nDAITOWN\n
      <<88,94,89,94,49,32,69,76,77,32,83,84,10,68,65,73,84,79,87,78,10>>,
      \* X^DOE,$JANE^
      <<88,94,68,79,69,44,36,74,65,78,69,94>>,
      \* ;1234567890123=
      <<59,49,50,51,52,53,54,55,56,57,48,49,50,51,61>>,
      \* DAITOWN\nDAG9 ASH RD\n
      <<68,65,73,84,79,87,78,10,68,65,71,57,32,65,83,72,32,82,68,10>> }

\* AAMVA payloads with a height (DAU) or a license class of several characters
HeightInputs ==
    {
      \* DAU180\n
      <<68,65,85,49,56,48,10>>,
      \* DCSSMITH\nDAU 5 10\n
      <<68,67,83,83,77,73,84,72,10,68,65,85,32,53,32,49,48,10>>,
      \* DAQX1\nDAU180cm\n
      <<68,65,81,88,49,10,68,65,85,49,56,48,99,109,10>>,
      \* DCSLEE\nDCAGM2 X\n
      <<68,67,83,76,69,69,10,68,67,65,71,77,50,32,88,10>> }

\* payloads with lines shorter than a code, values that are empty, segments
\* without "," or "$", date blocks of 11 and of 13 digits, and white space
\* outside ASCII around lines and values
MalformedInputs ==
    {
      \* DA\nD\n
      <<68,65,10,68,10>>,
      \* DBA\nDCS\n
      <<68,66,65,10,68,67,83,10>>,
      \* ^
      <<94>>,
      \* ,
      <<44>>,
      \* %BC^,^$^
      <<37,66,67,94,44,94,36,94>>,
      \* A^B,C
      <<65,94,66,44,67>>,
      \* ;123=27122005121=
      <<59,49,50,51,61,50,55,49,50,50,48,48,53,49,50,49,61>>,
      \* =2712200512123=
      <<61,50,55,49,50,50,48,48,53,49,50,49,50,51,61>>,
      \* \x15\x15
      <<21,21>>,
      \* DCS U+00A0 SMITH\nDAQ U+3000 A1 U+0085\n
      <<68,67,83,194,160,83,77,73,84,72,10,68,65,81,227,128,128,65,49,194,133,10>>,
      \* U+2028 DACJO U+00A0\n
      <<226,128,168,68,65,67,74,79,194,160,10>> }

ParserInputs ==
    Payloads \cup AAMVAInputs \cup ProvincialInputs \cup MarkedInputs
    \cup UnmarkedInputs \cup HeightInputs \cup MalformedInputs

ParserInit ==
    /\ raw \in ParserInputs
    /\ year \in CurrentYears
    /\ parser = "none"
    /\ license = LicenseData
    /\ cfg = [portOverride |-> COM4, scannerPort |-> CON3, useSimpleCommand |-> TRUE,
              useMacSettings |-> TRUE, readTimeout |-> 10 * TicksPerSecond]
    /\ pc = "idle"
    /\ now = 0
    /\ portName = <<>>
    /\ port = "none"
    /\ mode = [BaudRate |-> 0, DataBits |-> 0]
    /\ opens = 0 /\ writes = 0 /\ written = <<>> /\ reads = 0 /\ closes = 0
    /\ deadline = 0 /\ readStart = 0
    /\ hasReceivedData = FALSE
    /\ responseBuffer = <<>>
    /\ abandoned = 0
    /\ timeouts = 0 /\ fragments = 0
    /\ dev = [endless |-> FALSE, rem |-> <<>>, left |-> 0]
    /\ sent = 0
    /\ result = <<>>
    /\ err = "nil"
    /\ parsed = 0
    /\ response = NoResponse
    /\ env = NoEnv
    /\ obtained = <<>>
    /\ zeroReads = 0
    /\ reqs = NoRequests
    /\ wire = <<>>

scanVars ==
    <<cfg, pc, now, portName, port, mode, ioVars, loopVars, abandoned, dev, sent,
      result, err, parsed, response, obtained, zeroReads>>

requestVars ==
    <<cfg, pc, now, portName, port, mode, ioVars, loopVars, abandoned, dev, sent,
      result, err, parsed, response, env, obtained, zeroReads, reqs, wire>>

\* parseBCLicenseData(raw) is called
CallParseBC ==
    /\ parser = "none"
    /\ license' = parseBCLicenseData(raw, year)
    /\ parser' = "parseBCLicenseData"
    /\ UNCHANGED <<raw, year, requestVars>>

\* parseAAMVALicenseData(raw) is called
CallParseAAMVA ==
    /\ parser = "none"
    /\ license' = parseAAMVALicenseData(raw)
    /\ parser' = "parseAAMVALicenseData"
    /\ UNCHANGED <<raw, year, requestVars>>

\* parseLicenseData(raw) is called
CallParseLicenseData ==
    /\ parser = "none"
    /\ license' = parseLicenseData(raw, year)
    /\ parser' = "parseLicenseData"
    /\ UNCHANGED <<raw, year, requestVars>>

ParserNext ==
    \/ CallParseBC
    \/ CallParseAAMVA
    \/ CallParseLicenseData

ParserSpec == ParserInit /\ [][ParserNext]_vars

(***************************************************************************)
(* findScannerPort on its own: an override, a platform and an enumeration  *)
(* of serial devices are drawn, and findScannerPort is called.             *)
(***************************************************************************)
\* devices in one enumeration
MaxPorts == 3

\* "com4", "/dev/cu.usbserial-1", "COM7"
Com4Lower == <<99, 111, 109, 52>>
CuUsbSerial ==
    <<47, 100, 101, 118, 47, 99, 117, 46, 117, 115, 98, 115, 101, 114, 105, 97, 108, 45, 49>>
COM7 == <<67, 79, 77, 55>>
\* "/dev/cu.usbser" U+0130 "al-1": lower case "/dev/cu.usbserial-1"
CuUsbSerialDotted ==
    <<47, 100, 101, 118, 47, 99, 117, 46, 117, 115, 98, 115, 101, 114, 196, 176, 97, 108,
      45, 49>>
DeviceNames == {COM3, COM4, Com4Lower, TtyS0, TtyUSB0, CuUsbSerial, CuUsbSerialDotted}

\* enumerations of up to MaxPorts different devices, in any order
Enumerations ==
    UNION {{f \in [1..n -> DeviceNames] :
               \A i, j \in 1..n : i < j => f[i] # f[j]} : n \in 0..MaxPorts}

Envs ==
    [ports : Enumerations, listErr : BOOLEAN, goos : {"windows", "linux", "darwin"}]

PortInit ==
    /\ env \in Envs
    /\ cfg \in [portOverride : {<<>>, COM7}, scannerPort : {CON3},
                useSimpleCommand : {TRUE}, useMacSettings : {TRUE},
                readTimeout : {10 * TicksPerSecond}]
    /\ pc = "idle"
    /\ now = 0
    /\ portName = <<>>
    /\ port = "none"
    /\ mode = [BaudRate |-> 0, DataBits |-> 0]
    /\ opens = 0 /\ writes = 0 /\ written = <<>> /\ reads = 0 /\ closes = 0
    /\ deadline = 0 /\ readStart = 0
    /\ hasReceivedData = FALSE
    /\ responseBuffer = <<>>
    /\ abandoned = 0
    /\ timeouts = 0 /\ fragments = 0
    /\ dev = [endless |-> FALSE, rem |-> <<>>, left |-> 0]
    /\ sent = 0
    /\ result = <<>>
    /\ err = "nil"
    /\ parsed = 0
    /\ response = NoResponse
    /\ raw = <<>> /\ year = 0 /\ parser = "none" /\ license = LicenseData
    /\ obtained = <<>>
    /\ zeroReads = 0
    /\ reqs = NoRequests
    /\ wire = <<>>

\* findScannerPort(portOverride) is called and returns
CallFindScannerPort ==
    /\ pc = "idle"
    /\ LET r == findScannerPort(cfg.portOverride, env.listErr, env.ports, env.goos)
       IN /\ portName' = r.port
          /\ err' = r.err
    /\ pc' = "resolved"
    /\ UNCHANGED <<cfg, now, port, mode, ioVars, loopVars, abandoned, dev, sent,
                   result, parsed, response, auxVars, obtained, zeroReads>>

PortNext == CallFindScannerPort

PortSpec == PortInit /\ [][PortNext]_vars

(***************************************************************************)
(* Properties of findScannerPort.                                          *)
(***************************************************************************)
\* positions of the devices named COM4, in upper or lower case
Com4At == {i \in 1..Len(env.ports) : ToUpper(env.ports[i]) = COM4}
\* positions of the devices that match the naming convention of the platform
MatchingAt == {i \in 1..Len(env.ports) : Compatible(env.goos, env.ports[i])}
\* findScannerPort has returned for an empty override
ResolvedWithoutOverride == pc = "resolved" /\ cfg.portOverride = <<>>

C25_OverrideThenCOM4ThenFirstMatch ==
    pc = "resolved" =>
        /\ cfg.portOverride # <<>> => (portName = cfg.portOverride /\ err = "nil")
        /\ (cfg.portOverride = <<>> /\ ~env.listErr /\ Com4At # {}) =>
              /\ err = "nil"
              /\ \E i \in Com4At : portName = env.ports[i] /\ \A j \in Com4At : i <= j
        /\ (cfg.portOverride = <<>> /\ ~env.listErr /\ Com4At = {} /\ MatchingAt # {}) =>
              /\ err = "nil"
              /\ \E i \in MatchingAt :
                    portName = env.ports[i] /\ \A j \in MatchingAt : i <= j

\* COM4 is the last of three devices, after COM3
C25_Witness ==
    /\ ResolvedWithoutOverride
    /\ env = [ports |-> <<TtyUSB0, COM3, COM4>>, listErr |-> FALSE, goos |-> "windows"]
    /\ portName = COM4
    /\ err = "nil"

(***************************************************************************)
(* Two overlapping scan requests.  net/http runs each request's handler in *)
(* a goroutine of its own; both handlers are called with the same flags,   *)
(* so both resolve the same port.  Time is left out: a request in its     *)
(* loop may find the deadline passed (LoopEnds) or meet the per-read       *)
(* timeout (ReqTimeout), which with a timeout as long as the deadline      *)
(* ends the loop as well.                                                  *)
(***************************************************************************)
\* bytes the scanner answers one command with
MaxAnswer == 2

\* the answer to request r's command: MaxAnswer bytes that name the request
Answer(r) == [i \in 1..MaxAnswer |-> 64 + r]

\* the other request
Other(r) == CHOOSE q \in Requests : q # r

\* mutant of ReqEnter: the handler takes a lock around sendScannerCommand
ReqEnterLocked(r) ==
    /\ reqs[r].pc = "idle"
    /\ reqs[Other(r)].pc \in {"idle", "done"}
    /\ reqs' = [reqs EXCEPT ![r].pc = "open"]
    /\ UNCHANGED <<wire, parseVars, env, scanVars>>

\* the handler registered for /scanner/scan runs scannerHandler, which calls
\* sendScannerCommand: nothing is waited for on the way
ReqEnter(r) ==
    /\ reqs[r].pc = "idle"
    /\ reqs' = [reqs EXCEPT ![r].pc = "open"]
    /\ UNCHANGED <<wire, parseVars, env, scanVars>>

\* serial.Open: it succeeds or fails (no such device, access denied, port
\* held by the other request or by another process); a failure ends the
\* request with "open port ... failed"
ReqOpen(r) ==
    /\ reqs[r].pc = "open"
    /\ \/ reqs' = [reqs EXCEPT ![r].pc = "write", ![r].open = TRUE]
       \/ reqs' = [reqs EXCEPT ![r].pc = "done", ![r].err = "open port failed"]
    /\ UNCHANGED <<wire, parseVars, env, scanVars>>

\* port.Write(cmd): on success the scanner answers on the line both handles
\* read from; on failure sendScannerCommand returns the error
ReqWrite(r) ==
    /\ reqs[r].pc = "write"
    /\ \/ /\ reqs' = [reqs EXCEPT ![r].pc = "reading"]
          /\ wire' = wire \o Answer(r)
       \/ /\ reqs' = [reqs EXCEPT ![r].pc = "return", ![r].err = "write failed"]
          /\ UNCHANGED wire
    /\ UNCHANGED <<parseVars, env, scanVars>>

\* a read of request r returns the next bytes on the line
ReqRead(r) ==
    /\ reqs[r].pc = "reading"
    /\ wire # <<>>
    /\ \E k \in 1..Len(wire) :
          /\ reqs' = [reqs EXCEPT ![r].got = @ \o Slice(wire, 0, k)]
          /\ wire' = Slice(wire, k, Len(wire))
    /\ UNCHANGED <<parseVars, env, scanVars>>

\* a read of request r returns an error other than "read timeout":
\* sendScannerCommand returns it
ReqReadError(r) ==
    /\ reqs[r].pc = "reading"
    /\ reqs' = [reqs EXCEPT ![r].pc = "return", ![r].err = "io error"]
    /\ UNCHANGED <<wire, parseVars, env, scanVars>>

\* the timer of a read of request r fires: the read stays blocked in the
\* background and the loop ends
ReqTimeout(r) ==
    /\ reqs[r].pc = "reading"
    /\ reqs' = [reqs EXCEPT ![r].pc = "return", ![r].bg = TRUE]
    /\ UNCHANGED <<wire, parseVars, env, scanVars>>

\* the loop condition of request r finds the deadline passed
LoopEnds(r) ==
    /\ reqs[r].pc = "reading"
    /\ reqs' = [reqs EXCEPT ![r].pc = "return"]
    /\ UNCHANGED <<wire, parseVars, env, scanVars>>

\* sendScannerCommand returns: the deferred port.Close() closes r's handle
ReqReturn(r) ==
    /\ reqs[r].pc = "return"
    /\ reqs' = [reqs EXCEPT ![r].pc = "done", ![r].open = FALSE]
    /\ UNCHANGED <<wire, parseVars, env, scanVars>>

\* the background read request r left behind returns: with bytes off the
\* line, which nobody receives, or with an error once r's handle is closed
ReqAbandonedReadReturns(r) ==
    /\ reqs[r].bg
    /\ \/ /\ reqs[r].open
          /\ wire # <<>>
          /\ \E k \in 1..Len(wire) : wire' = Slice(wire, k, Len(wire))
       \/ /\ ~reqs[r].open
          /\ UNCHANGED wire
    /\ reqs' = [reqs EXCEPT ![r].bg = FALSE]
    /\ UNCHANGED <<parseVars, env, scanVars>>

ConcInit ==
    /\ cfg = [portOverride |-> COM4, scannerPort |-> CON3, useSimpleCommand |-> TRUE,
              useMacSettings |-> TRUE, readTimeout |-> 10 * TicksPerSecond]
    /\ pc = "idle"
    /\ now = 0
    /\ portName = <<>>
    /\ port = "none"
    /\ mode = [BaudRate |-> 0, DataBits |-> 0]
    /\ opens = 0 /\ writes = 0 /\ written = <<>> /\ reads = 0 /\ closes = 0
    /\ deadline = 0 /\ readStart = 0
    /\ hasReceivedData = FALSE
    /\ responseBuffer = <<>>
    /\ abandoned = 0
    /\ timeouts = 0 /\ fragments = 0
    /\ dev = [endless |-> FALSE, rem |-> <<>>, left |-> 0]
    /\ sent = 0
    /\ result = <<>>
    /\ err = "nil"
    /\ parsed = 0
    /\ response = NoResponse
    /\ raw = <<>> /\ year = 0 /\ parser = "none" /\ license = LicenseData
    /\ env = NoEnv
    /\ obtained = <<>>
    /\ zeroReads = 0
    /\ reqs = NoRequests
    /\ wire = <<>>

ConcNext ==
    \E r \in Requests :
        \/ ReqEnter(r)
        \/ ReqOpen(r)
        \/ ReqWrite(r)
        \/ ReqRead(r)
        \/ ReqReadError(r)
        \/ ReqTimeout(r)
        \/ LoopEnds(r)
        \/ ReqReturn(r)
        \/ ReqAbandonedReadReturns(r)

ConcSpec == ConcInit /\ [][ConcNext]_vars

(***************************************************************************)
(* Properties.                                                             *)
(***************************************************************************)
\* a per-read timeout is met in this step
TimeoutStep == pc = "reading" /\ timeouts' = timeouts + 1

\* C1: a per-read timeout met while nothing has been received does not end
\* the read and is no error: control goes back to the loop condition with
\* the port open and no error or result set, and from the loop condition
\* another read is issued whenever the overall deadline has not elapsed.
C1_TimeoutWithoutDataKeepsWaiting ==
    [][/\ (TimeoutStep /\ fragments = 0) =>
            (pc' = "loop" /\ err' = "nil" /\ result' = <<>> /\ port' = "open")
       /\ (pc = "loop" /\ now < deadline) => (pc' = "reading" /\ reads' = reads + 1)
       /\ (pc = "loop" /\ pc' = "return") => now >= deadline]_vars

C1_Witness ==
    pc = "loop" /\ timeouts = 1 /\ fragments = 0 /\ err = "nil" /\ port = "open"

\* C2: a per-read timeout met after at least one fragment was received ends
\* the message: the loop is left and sendScannerCommand returns the
\* accumulated buffer and no error.
C2_TimeoutAfterDataEndsMessage ==
    [][(TimeoutStep /\ fragments >= 1) =>
          (pc' = "return" /\ result' = responseBuffer /\ err' = "nil"
           /\ reads' = reads)]_vars

C2_Witness ==
    /\ pc = "handle" /\ timeouts = 1 /\ fragments >= 2
    /\ err = "nil" /\ result = responseBuffer /\ result # <<>>

\* C3 (as claimed): the read loop stops as soon as the overall deadline has
\* elapsed: the request is never still inside the loop after the deadline.
C3_LoopStopsAtDeadline ==
    pc \in {"loop", "reading"} => now <= deadline

\* C4: after an I/O error of a read sendScannerCommand has returned the
\* error with an empty string, whatever was accumulated; the handler
\* answers 500 with status error and parseLicenseData is not called.
C4_ReadErrorAborts ==
    err = "io error" =>
        /\ pc \in {"return", "handle", "done"}
        /\ result = <<>>
        /\ parsed = 0
        /\ pc = "done" => (response.code = 500 /\ response.status = "error")

C4_Witness ==
    /\ pc = "done" /\ err = "io error" /\ fragments >= 1 /\ responseBuffer # <<>>
    /\ response.code = 500

\* C5: once the request is back in the handler, a port that was opened is
\* closed, exactly once, so it is closed before parseLicenseData runs; a
\* port whose open failed is never written to, read from or closed.
C5_PortScopedToRequest ==
    /\ pc \in {"handle", "done"} =>
          \/ port = "closed" /\ closes = 1
          \/ port = "none" /\ closes = 0
    /\ parsed > 0 => port = "closed"
    /\ port = "none" => (writes = 0 /\ reads = 0 /\ closes = 0 /\ written = <<>>)
    /\ closes <= 1

C5_Witness ==
    /\ pc = "done" /\ port = "closed" /\ closes = 1 /\ parsed = 1
    /\ timeouts = 1 /\ response.status = "success"

\* C6: a result that is empty or is the NAK byte alone is answered 404 with
\* status error, and parseLicenseData is not called.
C6_EmptyOrNAKIsNoScan ==
    (pc = "done" /\ err = "nil" /\ result \in {<<>>, <<NAK>>}) =>
        (response.code = 404 /\ response.status = "error" /\ parsed = 0)

C6_Witness ==
    pc = "done" /\ err = "nil" /\ result = <<NAK>> /\ response.code = 404

\* no identity field in the record l
NoIdentity(l) ==
    l.FirstName = <<>> /\ l.LastName = <<>> /\ l.Address = <<>> /\ l.City = <<>>
    /\ l.LicenseNumber = <<>>

\* neither parser extracts an identity field from r
NeitherParserExtracts(r) ==
    \A yy \in CurrentYears :
        NoIdentity(parseBCLicenseData(r, yy)) /\ NoIdentity(parseAAMVALicenseData(r))

\* value of a lower-case hex digit
HexValue(c) == IF c <= 57 THEN c - 48 ELSE c - 87

\* h is the hex encoding of r
IsHexOf(h, r) ==
    /\ Len(h) = 2 * Len(r)
    /\ \A i \in 1..Len(r) : 16 * HexValue(h[2 * i - 1]) + HexValue(h[2 * i]) = r[i]

\* r holds ASCII bytes only
IsASCII(r) == \A i \in 1..Len(r) : r[i] < RuneSelf

\* the response is the warning for result: 200, status warning, the record
\* parseLicenseData returns for result, the raw response (as far as a JSON
\* string carries it: byte for byte when it is ASCII, with U+FFFD for a byte
\* that is not valid UTF-8) and the hex encoding of its exact bytes
IsWarningResponse ==
    /\ response.code = 200
    /\ response.status = "warning"
    /\ {"licenseData", "rawResponse", "rawResponseHex"} \subseteq response.keys
    /\ NoIdentity(response.licenseData)
    /\ \E yy \in CurrentYears :
          response.licenseData = EncodedLicense(parseLicenseData(result, yy))
    /\ response.rawResponse = EncodedString(result)
    /\ IsASCII(result) => response.rawResponse = result
    /\ IsHexOf(response.rawResponseHex, result)

\* C7: every non-empty result other than the NAK byte from which neither
\* parser extracts an identity field is answered 200 with status warning,
\* the record, the raw response and its hex encoding.
C7_Original ==
    (pc = "done" /\ err = "nil" /\ result # <<>> /\ result # <<NAK>>
     /\ NeitherParserExtracts(result)) => IsWarningResponse

\* C8: a finished request has written exactly one of the four responses
\* (500 error, 404 error, 200 warning, 200 success), 500 exactly when the
\* transport failed; status success carries a record with an identity field;
\* before the request finishes nothing is written.
C8_FourOutcomes ==
    /\ pc # "done" => response = NoResponse
    /\ pc = "done" =>
          /\ <<response.code, response.status>> \in
                {<<500, "error">>, <<404, "error">>, <<200, "warning">>, <<200, "success">>}
          /\ response.code = 500 <=> err # "nil"
          /\ response.status = "success" =>
                (parsed = 1 /\ ~NoIdentity(response.licenseData))
          /\ response.status = "warning" => NoIdentity(response.licenseData)

C8_Witness ==
    pc = "done" /\ response.code = 200 /\ response.status = "success"
    /\ response.licenseData.City # <<>> /\ response.licenseData.FirstName = <<>>

\* C9: a request opens the port at most once and writes at most once, and
\* once sendScannerCommand has an error it makes no further open, write or
\* read and keeps that error.
C9_NoRetry ==
    [][/\ opens' <= 1 /\ writes' <= 1
       /\ err # "nil" => (opens' = opens /\ writes' = writes /\ reads' = reads
                           /\ err' = err /\ pc' \in {"return", "handle", "done"})]_vars

C9_Witness ==
    pc = "done" /\ err = "write failed" /\ opens = 1 /\ writes = 1 /\ reads = 0

\* C10: what is written to the port is SOH, the command, EOT and nothing
\* else, the command being <TXPING> in simple mode and <TXPING,scannerPort>
\* otherwise; no read is issued before the write.
C10_CommandOnTheWire ==
    /\ writes = 0 => (written = <<>> /\ reads = 0)
    /\ writes >= 1 =>
          written = (IF cfg.useSimpleCommand
                     THEN <<1, 60, 84, 88, 80, 73, 78, 71, 62, 4>>
                     ELSE <<1, 60, 84, 88, 80, 73, 78, 71, 44>> \o cfg.scannerPort
                          \o <<62, 4>>)

C10_Witness ==
    /\ reads >= 1 /\ writes = 1 /\ ~cfg.useSimpleCommand
    /\ written = <<1, 60, 84, 88, 80, 73, 78, 71, 44, 67, 79, 78, 51, 62, 4>>

\* C11 (as claimed): the idle timeout of every read is the read-timeout the
\* caller supplied (the -timeout flag): a per-read timeout is met exactly
\* when that long has passed since the read was issued.
C11_PerReadTimeoutIsReadTimeout ==
    [][TimeoutStep => now = readStart + cfg.readTimeout]_vars

(***************************************************************************)
(* Properties of the parsers.                                              *)
(***************************************************************************)
\* BC AB ON QC MB SK NS NB PE NL YT NT NU
ProvinceCodes ==
    {<<66,67>>, <<65,66>>, <<79,78>>, <<81,67>>, <<77,66>>, <<83,75>>, <<78,83>>,
     <<78,66>>, <<80,69>>, <<78,76>>, <<89,84>>, <<78,84>>, <<78,85>>}
HasProvinceMarker(s) == \E c \in ProvinceCodes : Contains(s, <<37>> \o c)
\* "ANSI ", "DCS", "DAQ"
HasAAMVAMarker(s) ==
    \/ Contains(s, <<65, 78, 83, 73, 32>>)
    \/ Contains(s, <<68, 67, 83>>)
    \/ Contains(s, <<68, 65, 81>>)

\* C12 (as claimed): a payload that, its leading NAK stripped, contains "%"
\* followed by the two-letter code of any province or territory is parsed by
\* the provincial parser even when it also contains "ANSI ", "DCS" or "DAQ";
\* a payload without such a marker that contains one of the three AAMVA
\* markers is parsed by the AAMVA parser.
C12_ProvinceMarkerFirst ==
    parser = "parseLicenseData" =>
        LET cleanRaw == TrimPrefix(raw, <<NAK>>)
        IN /\ HasProvinceMarker(cleanRaw) => license = parseBCLicenseData(raw, year)
           /\ (~HasProvinceMarker(cleanRaw) /\ HasAAMVAMarker(cleanRaw)) =>
                  license = parseAAMVALicenseData(raw)

\* the payload carries neither a province marker nor an AAMVA marker
IsUnknownFormat(payload) ==
    /\ ~HasProvinceMarker(TrimPrefix(payload, <<NAK>>))
    /\ ~HasAAMVAMarker(TrimPrefix(payload, <<NAK>>))

\* C13 (as claimed): for a payload of unknown format the AAMVA parser is used
\* only when the provincial result has no name, no address and no license
\* number; a provincial result with any of them is returned as it is.
C13_Original ==
    (parser = "parseLicenseData" /\ IsUnknownFormat(raw)) =>
        LET p == parseBCLicenseData(raw, year)
        IN IF /\ p.FirstName = <<>> /\ p.MiddleName = <<>> /\ p.LastName = <<>>
              /\ p.Address = <<>> /\ p.LicenseNumber = <<>>
           THEN license = parseAAMVALicenseData(raw)
           ELSE license = p

\* C13: for a payload of unknown format the provincial parser is tried
\* first; its result is returned as it is when it has a first name, a last
\* name or a license number, and the result of the AAMVA parser is returned
\* otherwise, also when the provincial result has an address.
C13_FallbackOnNameAndNumber ==
    (parser = "parseLicenseData" /\ IsUnknownFormat(raw)) =>
        LET p == parseBCLicenseData(raw, year)
        IN IF p.FirstName = <<>> /\ p.LastName = <<>> /\ p.LicenseNumber = <<>>
           THEN license = parseAAMVALicenseData(raw)
           ELSE license = p

\* "X^Y^1 ELM ST\nDAITOWN\n": the provincial parser finds only an address,
\* and the AAMVA result (city TOWN, no address) is returned
C13_Witness ==
    /\ parser = "parseLicenseData"
    /\ IsUnknownFormat(raw)
    /\ parseBCLicenseData(raw, year).Address # <<>>
    /\ license.Address = <<>>
    /\ license.City = <<84,79,87,78>>

\* the trimmed values of the lines of an AAMVA payload that begin with code,
\* in the order of the lines
ElementValues(payload, code) ==
    LET lines == TrimmedLines(Split(TrimPrefix(payload, <<NAK>>), <<10>>))
        hits == SelectSeq(lines, LAMBDA l : HasPrefix(l, code))
    IN [k \in 1..Len(hits) |-> TrimSpace(SubSeq(hits[k], 4, Len(hits[k])))]
DCFValues(payload) == ElementValues(payload, <<68, 67, 70>>)
DAQValues(payload) == ElementValues(payload, <<68, 65, 81>>)

\* C14 (as claimed): a DAQ or DCF value of exactly 15 characters becomes the
\* license number value[0:5]-value[5:10]-value[10:15]; a value of any other
\* length becomes the license number unchanged (payloads with one such line).
C14_FifteenCharsHyphenated ==
    parser = "parseAAMVALicenseData" =>
        LET vs == DCFValues(raw) \o DAQValues(raw)
        IN Len(vs) = 1 =>
              license.LicenseNumber =
                  IF Len(vs[1]) = 15
                  THEN SubSeq(vs[1], 1, 5) \o <<45>> \o SubSeq(vs[1], 6, 10)
                       \o <<45>> \o SubSeq(vs[1], 11, 15)
                  ELSE vs[1]

\* C15: when an AAMVA payload has a DCF line its license number is the value
\* of the DCF line (of the last one if there are several), whether a DAQ line
\* comes before or after it; the value of the (first) DAQ line is the license
\* number only when there is no DCF line.
C15_DCFTakesPrecedence ==
    parser = "parseAAMVALicenseData" =>
        LET dcf == DCFValues(raw)
            daq == DAQValues(raw)
        IN /\ dcf # <<>> => license.LicenseNumber = dcf[Len(dcf)]
           /\ (dcf = <<>> /\ daq # <<>>) => license.LicenseNumber = daq[1]

\* "DCFX9\nDAQ D1234 \n": the DAQ line comes after the DCF line
C15_Witness ==
    /\ parser = "parseAAMVALicenseData"
    /\ raw = <<68,67,70,88,57,10,68,65,81,32,68,49,50,51,52,32,10>>
    /\ license.LicenseNumber = <<88,57>>

\* lines that begin with a code the parser has no case for: "ZZZ HELLO",
\* "ZZZDCAG" and "ZZZDCAG5"
UnknownLines ==
    {<<90, 90, 90, 32, 72, 69, 76, 76, 79>>,
     <<90, 90, 90, 68, 67, 65, 71>>,
     <<90, 90, 90, 68, 67, 65, 71, 53>>}
\* the line contains DCAG followed by a letter, a digit or an underscore
NamesClass(line) ==
    \E i \in 1..(Len(line) - 4) :
        SubSeq(line, i, i + 3) = <<68, 67, 65, 71>> /\ IsWord(line[i + 4])

RECURSIVE Join(_, _)
Join(lines, sep) ==
    IF Len(lines) <= 1 THEN (IF lines = <<>> THEN <<>> ELSE lines[1])
    ELSE lines[1] \o sep \o Join(Tail(lines), sep)
\* the payload with line u added after its first p lines
InsertLine(payload, p, u) ==
    LET lines == Split(payload, <<10>>)
    IN Join(SubSeq(lines, 1, p) \o <<u>> \o SubSeq(lines, p + 1, Len(lines)), <<10>>)
\* the two records agree on every extracted field
SameFields(a, b) == [a EXCEPT !.RawData = <<>>] = [b EXCEPT !.RawData = <<>>]
\* adding u at any position gives the fields the parser has returned
AddingChangesNothing(u) ==
    LET clean == TrimPrefix(raw, <<NAK>>)
    IN \A p \in 0..Len(Split(clean, <<10>>)) :
           SameFields(parseAAMVALicenseData(InsertLine(clean, p, u)), license)

\* C16 (as claimed): adding a line that begins with an unrecognized
\* three-letter code, at any position of an AAMVA payload, leaves every
\* field unchanged, the license class included.
C16_Original ==
    parser = "parseAAMVALicenseData" => \A u \in UnknownLines : AddingChangesNothing(u)

\* C16: adding a line that begins with an unrecognized three-letter code and
\* does not contain DCAG followed by a letter, digit or underscore, at any
\* position of an AAMVA payload, leaves every field unchanged, the license
\* class included.
C16_UnknownLineIgnored ==
    parser = "parseAAMVALicenseData" =>
        \A u \in {l \in UnknownLines : ~NamesClass(l)} : AddingChangesNothing(u)

\* "DCSSMITH\nZZZ HELLO\nDCAGC\n": the fields of the lines around the unknown
\* line are extracted
C16_Witness ==
    /\ parser = "parseAAMVALicenseData"
    /\ raw = <<68, 67, 83, 83, 77, 73, 84, 72, 10, 90, 90, 90, 32, 72, 69, 76, 76, 79, 10, 68, 67, 65, 71, 67, 10>>
    /\ license.LastName = <<83, 77, 73, 84, 72>>
    /\ license.LicenseClass = <<67>>

\* the value is 8 decimal digits
IsDate8(v) == Len(v) = 8 /\ \A i \in 1..8 : IsDigit(v[i])
\* field is what the single line with this code gives
DateFieldOf(code, field) ==
    LET vs == ElementValues(raw, code)
    IN Len(vs) = 1 =>
          /\ IsDate8(vs[1]) =>
                field = SubSeq(vs[1], 1, 4) \o <<47>> \o SubSeq(vs[1], 5, 6)
                        \o <<47>> \o SubSeq(vs[1], 7, 8)
          /\ Len(vs[1]) < 8 => field = <<>>

\* C17: a DBA, DBD or DBB value of 8 digits YYYYMMDD gives the expiry date,
\* issue date or birth date YYYY/MM/DD, the same digits with a delimiter
\* after the 4th and the 6th; a value shorter than 8 characters leaves the
\* date empty (payloads with one line of the code).
C17_DatesDelimited ==
    parser = "parseAAMVALicenseData" =>
        /\ DateFieldOf(<<68, 66, 65>>, license.ExpiryDate)
        /\ DateFieldOf(<<68, 66, 68>>, license.IssueDate)
        /\ DateFieldOf(<<68, 66, 66>>, license.Dob)

\* "DBA20300615\nDBB1990\nDBD20200101\n"
C17_Witness ==
    /\ parser = "parseAAMVALicenseData"
    /\ raw = <<68, 66, 65, 50, 48, 51, 48, 48, 54, 49, 53, 10, 68, 66, 66, 49, 57, 57, 48, 10, 68, 66, 68, 50, 48, 50, 48, 48, 49, 48, 49, 10>>
    /\ license.ExpiryDate = <<50, 48, 51, 48, 47, 48, 54, 47, 49, 53>>
    /\ license.IssueDate = <<50, 48, 50, 48, 47, 48, 49, 47, 48, 49>>
    /\ license.Dob = <<>>

\* the payload as the provincial parser reads it: no leading NAK, no \r, no \n
Cleaned(payload) ==
    ReplaceAll(ReplaceAll(TrimPrefix(payload, <<NAK>>), <<13>>, <<>>), <<10>>, <<>>)
\* 1-based positions of the "=" that opens a block of 12 digits closed by "="
DateBlocks(s) ==
    {i \in 1..(Len(s) - 13) :
        s[i] = 61 /\ s[i + 13] = 61 /\ \A k \in 1..12 : IsDigit(s[i + k])}
\* the 12 digits of the first date block
DateBlock(s) == SubSeq(s, Least(DateBlocks(s)) + 1, Least(DateBlocks(s)) + 12)

\* C18: with Y the current year mod 100 and B the two-digit birth year of
\* the date block, the birth date is 19B-MM-DD when B > Y and 20B-MM-DD when
\* B <= Y, month and day digits as in the block.
C18_CenturyRule ==
    (parser = "parseBCLicenseData" /\ DateBlocks(Cleaned(raw)) # {}) =>
        LET d == DateBlock(Cleaned(raw))
            b == (d[7] - 48) * 10 + (d[8] - 48)
        IN license.Dob = (IF b > year THEN <<49, 57>> ELSE <<50, 48>>)
                         \o SubSeq(d, 7, 8) \o <<45>> \o SubSeq(d, 9, 10)
                         \o <<45>> \o SubSeq(d, 11, 12)

\* in 2025 the birth year 26 is 1926
C18_Witness ==
    /\ parser = "parseBCLicenseData"
    /\ year = 25
    /\ DateBlocks(Cleaned(raw)) # {}
    /\ SubSeq(DateBlock(Cleaned(raw)), 7, 8) = <<50, 54>>
    /\ license.Dob = <<49, 57, 50, 54, 45, 49, 50, 45, 49, 50>>

\* 1-based positions and lengths <<i, n>> of the runs of 13 to 16 digits
\* preceded by ";" (at i) and followed by "="
LicenseRuns(s) ==
    {r \in (1..Len(s)) \X (13..16) :
        /\ r[1] + r[2] + 1 <= Len(s)
        /\ s[r[1]] = 59
        /\ \A k \in 1..r[2] : IsDigit(s[r[1] + k])
        /\ s[r[1] + r[2] + 1] = 61}

\* C19: the provincial license number is the last 7 digits of the (first)
\* run of 13 to 16 digits that directly follows ";" and is directly followed
\* by "="; without such a run it is empty.
C19_LastSevenDigits ==
    parser = "parseBCLicenseData" =>
        LET s == Cleaned(raw)
            runs == LicenseRuns(s)
        IN IF runs = {} THEN license.LicenseNumber = <<>>
           ELSE \E r \in runs :
                   /\ \A q \in runs : r[1] <= q[1]
                   /\ license.LicenseNumber = SubSeq(s, r[1] + r[2] - 6, r[1] + r[2])

\* a run of 16 digits 1234567890123456
C19_Witness ==
    /\ parser = "parseBCLicenseData"
    /\ \E r \in LicenseRuns(Cleaned(raw)) : r[2] = 16
    /\ license.LicenseNumber = <<48, 49, 50, 51, 52, 53, 54>>

\* "%BCVICTORIA^SMITH,$JOHN A^123 MAIN ST$BC V8W 1A1^;1234567890123=271220051212="
ScenarioB ==
    <<37,66,67,86,73,67,84,79,82,73,65,94,83,77,73,84,72,44,36,74,79,72,78,32,
      65,94,49,50,51,32,77,65,73,78,32,83,84,36,66,67,32,86,56,87,32,49,65,49,
      94,59,49,50,51,52,53,54,55,56,57,48,49,50,51,61,50,55,49,50,50,48,48,53,
      49,50,49,50,61>>

\* C20: scenario B gives city VICTORIA, last name SMITH, first name JOHN,
\* middle name A, address 123 MAIN ST, state BC, postal code V8W 1A1, license
\* number 7890123, expiry date 2020-12-27 (from 271220) and birth date
\* 2005-12-12 (from 051212, 05 being no later than the current year).
C20_ScenarioB ==
    (parser = "parseLicenseData" /\ raw = ScenarioB) =>
        /\ license.City = <<86, 73, 67, 84, 79, 82, 73, 65>>
        /\ license.LastName = <<83, 77, 73, 84, 72>>
        /\ license.FirstName = <<74, 79, 72, 78>>
        /\ license.MiddleName = <<65>>
        /\ license.Address = <<49, 50, 51, 32, 77, 65, 73, 78, 32, 83, 84>>
        /\ license.State = <<66, 67>>
        /\ license.Postal = <<86, 56, 87, 32, 49, 65, 49>>
        /\ license.LicenseNumber = <<55, 56, 57, 48, 49, 50, 51>>
        /\ license.ExpiryDate = <<50, 48, 50, 48, 45, 49, 50, 45, 50, 55>>
        /\ license.Dob = <<50, 48, 48, 53, 45, 49, 50, 45, 49, 50>>

C20_Witness ==
    /\ parser = "parseLicenseData"
    /\ raw = ScenarioB
    /\ license.RawData = ScenarioB
    /\ license.FirstName # <<>>

\* "cm"
HasCmOnce(h) == Len(h) >= 2 /\ Index(h, <<99, 109>>) = Len(h) - 2

\* C21 (as claimed): in every record parseLicenseData returns, whichever
\* parser produced it, the height is empty or ends with "cm", which occurs
\* in it once.
C21_HeightHasCmOnce ==
    parser = "parseLicenseData" =>
        (license.Height = <<>> \/ HasCmOnce(license.Height))

\* the lines of an AAMVA payload that name a license class
ClassLines(payload) ==
    SelectSeq(TrimmedLines(Split(TrimPrefix(payload, <<NAK>>), <<10>>)),
              LAMBDA l : NamesClass(l))
\* the run of letters, digits and underscores after the first DCAG of the
\* line that is followed by one
ClassOf(line) ==
    LET i == Least({j \in 1..(Len(line) - 4) :
                      SubSeq(line, j, j + 3) = <<68, 67, 65, 71>> /\ IsWord(line[j + 4])})
        n == CHOOSE m \in 1..Len(line) :
                 /\ \A k \in 1..m : i + 3 + k <= Len(line) /\ IsWord(line[i + 3 + k])
                 /\ (i + 4 + m <= Len(line) => ~IsWord(line[i + 4 + m]))
    IN SubSeq(line, i + 4, i + 3 + n)
\* what the AAMVA parser is to give for the payload
AAMVAClass(payload) ==
    IF ClassLines(payload) = <<>> THEN <<78, 65>>
    ELSE ClassOf(ClassLines(payload)[Len(ClassLines(payload))])

\* C22: every record has a non-empty license class: a record of the AAMVA
\* parser has the run that follows DCAG in the (last) line with one, and "NA"
\* when no line has one; a record of the provincial parser has "NA"; a record
\* of parseLicenseData has the class of the parser that produced it.
C22_ClassNeverEmpty ==
    /\ parser # "none" => license.LicenseClass # <<>>
    /\ parser = "parseBCLicenseData" => license.LicenseClass = <<78, 65>>
    /\ parser = "parseAAMVALicenseData" => license.LicenseClass = AAMVAClass(raw)
    /\ parser = "parseLicenseData" =>
          license.LicenseClass =
              IF license = parseBCLicenseData(raw, year) THEN <<78, 65>>
              ELSE AAMVAClass(raw)

\* "DCSLEE\nDCAGM2 X\n": the class is M2
C22_Witness ==
    /\ parser = "parseLicenseData"
    /\ raw = <<68, 67, 83, 76, 69, 69, 10, 68, 67, 65, 71, 77, 50, 32, 88, 10>>
    /\ license.LicenseClass = <<77, 50>>

\* the fields of the AAMVA record and the code of the line each is read from
AAMVAFields ==
    {<<"LastName", <<68, 67, 83>>>>, <<"FirstName", <<68, 65, 67>>>>,
     <<"MiddleName", <<68, 65, 68>>>>, <<"ExpiryDate", <<68, 66, 65>>>>,
     <<"IssueDate", <<68, 66, 68>>>>, <<"Dob", <<68, 66, 66>>>>,
     <<"Sex", <<68, 66, 67>>>>, <<"Height", <<68, 65, 85>>>>,
     <<"Address", <<68, 65, 71>>>>, <<"City", <<68, 65, 73>>>>,
     <<"State", <<68, 65, 74>>>>, <<"Postal", <<68, 65, 75>>>>}
\* a sequence of bytes
IsString(v) == DOMAIN v = 1..Len(v) /\ \A i \in 1..Len(v) : v[i] \in 0..255

\* C23: both parsers return a record for every payload, every field a
\* string; a field whose line, segment, digit run or date block the payload
\* does not have is the empty string (the license class is "NA", the raw data
\* the payload).
C23_ParsersTotal ==
    /\ parser # "none" =>
          /\ DOMAIN license = DOMAIN LicenseData
          /\ \A f \in DOMAIN license : IsString(license[f])
    /\ parser = "parseAAMVALicenseData" =>
          /\ \A fc \in AAMVAFields :
                ElementValues(raw, fc[2]) = <<>> => license[fc[1]] = <<>>
          /\ (DCFValues(raw) = <<>> /\ DAQValues(raw) = <<>>) =>
                license.LicenseNumber = <<>>
    /\ parser = "parseBCLicenseData" =>
          LET parts == Split(Cleaned(raw), <<94>>)
          IN /\ license.IssueDate = <<>>
             /\ (Len(parts) < 2 \/ ~Contains(parts[2], <<44>>)) =>
                   /\ license.FirstName = <<>> /\ license.MiddleName = <<>>
                   /\ license.LastName = <<>>
             /\ Len(parts) < 3 => license.Address = <<>>
             /\ (Len(parts) < 3 \/ ~Contains(parts[3], <<36>>)) =>
                   license.State = <<>> /\ license.Postal = <<>>
             /\ LicenseRuns(Cleaned(raw)) = {} => license.LicenseNumber = <<>>
             /\ DateBlocks(Cleaned(raw)) = {} =>
                   license.ExpiryDate = <<>> /\ license.Dob = <<>>

\* ";123=27122005121=": a date block of 11 digits
C23_Witness ==
    /\ parser = "parseBCLicenseData"
    /\ raw = <<59, 49, 50, 51, 61, 50, 55, 49, 50, 50, 48, 48, 53, 49, 50, 49, 61>>
    /\ license = [LicenseData EXCEPT !.RawData = raw, !.LicenseClass = <<78, 65>>]

(***************************************************************************)
(* Properties of the background reads.                                     *)
(***************************************************************************)
\* C26: at most one read of the port is outstanding: while a background read
\* that a timed-out readWithTimeout left behind is still blocked in
\* port.Read, the loop is not in another readWithTimeout. (A timeout is met
\* 3 s after the read was issued, when the deadline of 3 s has passed, so
\* the loop condition ends the loop instead of issuing a read.)
C26_OneReadOutstanding ==
    /\ pc = "reading" => abandoned = 0
    /\ abandoned <= 1

\* the loop has ended after a timeout while the abandoned read is blocked
C26_Witness ==
    /\ pc = "return" /\ err = "nil"
    /\ abandoned = 1 /\ timeouts = 1 /\ reads = 1
    /\ port = "open"

\* C29 (as claimed): the payload sendScannerCommand returns is the
\* concatenation, in the order of arrival, of all bytes that the reads of the
\* request obtained from the port before the loop ended, those of a
\* background read whose timer had expired included.
C29_NothingLost ==
    (pc \in {"handle", "done"} /\ err = "nil") => result = obtained

\* C30 (as claimed): in the read loop hasReceivedData is true exactly when
\* the accumulated buffer is not empty.
C30_FlagIffBufferNonEmpty ==
    pc \in {"loop", "reading"} => (hasReceivedData <=> responseBuffer # <<>>)

\* C27: an abandoned background read is not leaked: it completes, at the
\* latest when the deferred port.Close() of the request has closed the port
\* it is blocked on, and its send to the buffered channel does not block.
C27_AbandonedReadCompletes ==
    (abandoned > 0) ~> (abandoned = 0)

\* the request is over, its port is closed, and the read it abandoned at its
\* timeout has returned
C27_Witness ==
    /\ pc = "done" /\ port = "closed"
    /\ timeouts = 1 /\ reads = 1 /\ fragments = 0
    /\ abandoned = 0

\* C28: scan requests are not serialized: a request that has arrived enters
\* sendScannerCommand, and one that is about to open the port calls
\* serial.Open, wherever the other request is; no lock is waited for.
C28_NotSerialized ==
    \A r \in Requests :
        /\ reqs[r].pc = "idle" => ENABLED ReqEnter(r)
        /\ reqs[r].pc = "open" => ENABLED ReqOpen(r)

\* both requests are in the read loop with the port open, and each has read
\* bytes of the answers on the line
C28_Witness ==
    \A r \in Requests :
        /\ reqs[r].pc = "reading" /\ reqs[r].open
        /\ reqs[r].got # <<>>

=============================================================================
